---- MODULE Spec2Model ----
(***************************************************************************)
(* A model of the Cursor class of hazae41/cursor (src/mods/cursor/mod.ts): *)
(* a read/write head over a fixed Uint8Array.  A cursor is the record      *)
(* [bytes, offset]; JavaScript index i of the buffer is bytes[i + 1].      *)
(* Every method is an operator from a cursor (and its arguments) to an     *)
(* outcome [bytes, offset, err, value]: the buffer and offset the call     *)
(* leaves, the class name of the error it throws ("none" when it returns)  *)
(* and the value it returns.                                               *)
(***************************************************************************)
EXTENDS Integers, Sequences, FiniteSets, TLC

\* Largest buffer length a cursor is constructed over.
MaxLen == 8

\* Largest length argument of get/read/fill and longest array of set/write.
MaxN == 3

\* Most calls made on one cursor.
MaxCalls == 1

VARIABLES
  bytes,   \* the buffer the cursor borrows (#bytes and #data view the same storage)
  offset,  \* the cursor's offset
  last,    \* the last call: its name, arguments, the cursor before it, its outcome
  prev,    \* the call before the last one, where a scenario keeps it
  pc,      \* where the caller is in its scenario
  calls    \* how many calls the caller has made

vars == <<bytes, offset, last, prev, pc, calls>>

Min(a, b) == IF a < b THEN a ELSE b

Max(a, b) == IF a > b THEN a ELSE b

Reverse(s) == [i \in 1..Len(s) |-> s[Len(s) + 1 - i]]

\* The value a method returns when it returns nothing (void) or throws.
NoValue == <<>>

\* JavaScript's undefined where a number is expected: the result of reading a
\* typed array at an index outside it.  No byte (0..255) equals it.
Undefined == -256

\* ToBoolean of the optional littleEndian flag: an omitted flag is undefined.
ToBoolean(flag) == flag = "true"

Cur == [bytes |-> bytes, offset |-> offset]

Return(c, v) == [bytes |-> c.bytes, offset |-> c.offset, err |-> "none", value |-> v]

Throw(c, e) == [bytes |-> c.bytes, offset |-> c.offset, err |-> e, value |-> NoValue]

\* The cursor an outcome leaves.
After(o) == [bytes |-> o.bytes, offset |-> o.offset]

(***************************************************************************)
(* The typed array and DataView primitives the methods call.               *)
(***************************************************************************)

\* A relative index of subarray/fill: negative counts from the end, and the
\* result is clamped to 0..len.
RelIndex(i, len) == IF i < 0 THEN Max(len + i, 0) ELSE Min(i, len)

\* A faulty subarray: the window starts at the head of the storage, not at
\* begin.
subarrayAtZero(b, begin, end) ==
  LET bi == RelIndex(begin, Len(b))
      ei == RelIndex(end, Len(b))
  IN [byteOffset |-> 0, length |-> Max(ei - bi, 0)]

\* %TypedArray%.prototype.subarray(begin, end): a window on the same storage,
\* given by where it starts and how long it is.
subarray(b, begin, end) ==
  LET bi == RelIndex(begin, Len(b))
      ei == RelIndex(end, Len(b))
  IN [byteOffset |-> bi, length |-> Max(ei - bi, 0)]

\* The bytes seen through a window.
WindowBytes(b, w) == SubSeq(b, w.byteOffset + 1, w.byteOffset + w.length)

\* bytes[i]: undefined outside the array.
ByteAt(b, i) == IF 0 <= i /\ i < Len(b) THEN b[i + 1] ELSE Undefined

\* bytes[i] = x: x modulo 2^8 is stored; outside the array nothing happens.
StoreByte(b, i, x) == IF 0 <= i /\ i < Len(b) THEN [b EXCEPT ![i + 1] = x % 256] ELSE b

\* ToInt32 of an operand of << and |: undefined becomes 0.
ToInt32(x) == IF x = Undefined THEN 0 ELSE x

\* Whether %TypedArray%.prototype.set(array, at) throws a RangeError: the
\* array does not fit at index at.
TypedArraySetOutOfRange(b, array, at) == at < 0 \/ at + Len(array) > Len(b)

\* A faulty set: the index is left out, so the array lands at index 0.
TypedArraySetAtZero(b, array, at) ==
  [i \in 1..Len(b) |-> IF i <= Len(array) THEN array[i] ELSE b[i]]

\* %TypedArray%.prototype.set(array, at): copies array to index at.
TypedArraySet(b, array, at) ==
  [i \in 1..Len(b) |-> IF at < i /\ i <= at + Len(array) THEN array[i - at] ELSE b[i]]

\* %TypedArray%.prototype.fill(value, start, end).
TypedArrayFill(b, value, start, end) ==
  LET si == RelIndex(start, Len(b))
      ei == RelIndex(end, Len(b))
  IN [i \in 1..Len(b) |-> IF si < i /\ i <= ei THEN value % 256 ELSE b[i]]

\* Whether DataView.prototype.get*/set* of n bytes at byteOffset throws a
\* RangeError: ToIndex rejects a negative offset, then the end is checked.
DataViewOutOfRange(b, byteOffset, n) == byteOffset < 0 \/ byteOffset + n > Len(b)

\* DataView.prototype.getUint*: the n bytes at byteOffset as the base-256 digits
\* of the number, most significant first.
DataViewGet(b, byteOffset, n, littleEndian) ==
  LET raw == SubSeq(b, byteOffset + 1, byteOffset + n)
  IN IF ToBoolean(littleEndian) THEN Reverse(raw) ELSE raw

\* A faulty DataView.prototype.setUint*: the flag is ignored, the digits always
\* go most significant first.
DataViewSetBigEndianOnly(b, byteOffset, digits, littleEndian) ==
  [i \in 1..Len(b) |->
     IF byteOffset < i /\ i <= byteOffset + Len(digits) THEN digits[i - byteOffset] ELSE b[i]]

\* DataView.prototype.setUint*: stores n digits, most significant first, at
\* byteOffset in the byte order the flag asks for.
DataViewSet(b, byteOffset, digits, littleEndian) ==
  LET n == Len(digits)
      raw == IF ToBoolean(littleEndian) THEN Reverse(digits) ELSE digits
  IN [i \in 1..Len(b) |->
        IF byteOffset < i /\ i <= byteOffset + n THEN raw[i - byteOffset] ELSE b[i]]

\* A number too wide for a machine integer of the checker (a 32-bit number or a
\* BigInt) is the sequence of its base-256 digits, most significant first.
\* ToUint32 and BigInt.asUintN(64) keep it modulo 2^(8n): its last n digits.
ToUintDigits(x, n) ==
  [i \in 1..n |-> IF Len(x) - n + i >= 1 THEN x[Len(x) - n + i] ELSE 0]

(***************************************************************************)
(* The Cursor class.                                                       *)
(***************************************************************************)

length(c) == Len(c.bytes)

remaining(c) == length(c) - c.offset

before(c) == subarray(c.bytes, 0, c.offset)

after(c) == subarray(c.bytes, c.offset, length(c))

\* What an error object thrown by the cursor carries besides its name; an
\* outcome that is a throw has it as its value.  The unknown errors and the
\* RangeError of a DataView carry nothing of the cursor.
ThrowError(c, e, fields) == [bytes |-> c.bytes, offset |-> c.offset, err |-> e, value |-> fields]

\* CursorReadLengthOverflowError.from(cursor, bytesLength) and
\* CursorWriteLengthOverflowError.from(cursor, bytesLength)
CursorLengthOverflowError(c, bytesLength) ==
  [cursorOffset |-> c.offset, cursorLength |-> length(c), bytesLength |-> bytesLength]

\* CursorReadNullOverflowError.from(cursor)
CursorReadNullOverflowError(c) == [cursorOffset |-> c.offset, cursorLength |-> length(c)]

\* A faulty getOrThrow: the bound is compared with <=, so the last n bytes
\* cannot be taken.
getOrThrowOffByOne(c, n) ==
  IF remaining(c) <= n
  THEN ThrowError(c, "CursorReadLengthOverflowError", CursorLengthOverflowError(c, n))
  ELSE Return(c, subarray(c.bytes, c.offset, c.offset + n))

getOrThrow(c, n) ==
  IF remaining(c) < n
  THEN ThrowError(c, "CursorReadLengthOverflowError", CursorLengthOverflowError(c, n))
  ELSE Return(c, subarray(c.bytes, c.offset, c.offset + n))

readOrThrow(c, n) ==
  LET g == getOrThrow(c, n)
  IN IF g.err # "none" THEN g ELSE [g EXCEPT !.offset = c.offset + n]

\* A faulty setOrThrow: it moves offset past what it stored.
setOrThrowAdvancing(c, array) ==
  IF remaining(c) < Len(array)
  THEN ThrowError(c, "CursorWriteLengthOverflowError", CursorLengthOverflowError(c, Len(array)))
  ELSE Return([bytes |-> TypedArraySet(c.bytes, array, c.offset),
               offset |-> c.offset + Len(array)], NoValue)

setOrThrow(c, array) ==
  IF remaining(c) < Len(array)
  THEN ThrowError(c, "CursorWriteLengthOverflowError", CursorLengthOverflowError(c, Len(array)))
  ELSE IF TypedArraySetOutOfRange(c.bytes, array, c.offset) THEN Throw(c, "RangeError")
  ELSE Return([c EXCEPT !.bytes = TypedArraySet(c.bytes, array, c.offset)], NoValue)

\* A faulty writeOrThrow: offset is advanced whether or not setOrThrow threw.
writeOrThrowAlwaysAdvancing(c, array) ==
  LET s == setOrThrow(c, array)
  IN [s EXCEPT !.offset = c.offset + Len(array)]

writeOrThrow(c, array) ==
  LET s == setOrThrow(c, array)
  IN IF s.err # "none" THEN s ELSE [s EXCEPT !.offset = c.offset + Len(array)]

getUint8OrThrow(c) == Return(c, ByteAt(c.bytes, c.offset))

readUint8OrThrow(c) ==
  LET g == getUint8OrThrow(c)
  IN IF g.err # "none" THEN g ELSE [g EXCEPT !.offset = c.offset + 1]

setUint8OrThrow(c, x) == Return([c EXCEPT !.bytes = StoreByte(c.bytes, c.offset, x)], NoValue)

writeUint8OrThrow(c, x) ==
  LET s == setUint8OrThrow(c, x)
  IN IF s.err # "none" THEN s ELSE [s EXCEPT !.offset = c.offset + 1]

getUint16OrThrow(c, littleEndian) ==
  IF DataViewOutOfRange(c.bytes, c.offset, 2) THEN Throw(c, "RangeError")
  ELSE LET d == DataViewGet(c.bytes, c.offset, 2, littleEndian)
       IN Return(c, d[1] * 256 + d[2])

readUint16OrThrow(c, littleEndian) ==
  LET g == getUint16OrThrow(c, littleEndian)
  IN IF g.err # "none" THEN g ELSE [g EXCEPT !.offset = c.offset + 2]

\* setUint16 stores ToUint16(x): x modulo 2^16.
setUint16OrThrow(c, x, littleEndian) ==
  IF DataViewOutOfRange(c.bytes, c.offset, 2) THEN Throw(c, "RangeError")
  ELSE LET d == <<(x % 65536) \div 256, x % 256>>
       IN Return([c EXCEPT !.bytes = DataViewSet(c.bytes, c.offset, d, littleEndian)], NoValue)

writeUint16OrThrow(c, x, littleEndian) ==
  LET s == setUint16OrThrow(c, x, littleEndian)
  IN IF s.err # "none" THEN s ELSE [s EXCEPT !.offset = c.offset + 2]

getUint24OrThrow(c, littleEndian) ==
  LET b0 == ToInt32(ByteAt(c.bytes, c.offset))
      b1 == ToInt32(ByteAt(c.bytes, c.offset + 1))
      b2 == ToInt32(ByteAt(c.bytes, c.offset + 2))
  IN IF ToBoolean(littleEndian)
     THEN Return(c, b0 + b1 * 256 + b2 * 65536)
     ELSE Return(c, b0 * 65536 + b1 * 256 + b2)

readUint24OrThrow(c, littleEndian) ==
  LET g == getUint24OrThrow(c, littleEndian)
  IN IF g.err # "none" THEN g ELSE [g EXCEPT !.offset = c.offset + 3]

\* A faulty setUint24OrThrow: the flag is ignored, the bytes always go most
\* significant first.
setUint24OrThrowBigEndianOnly(c, x, littleEndian) ==
  LET lo == x % 256
      mi == (x \div 256) % 256
      hi == (x \div 65536) % 256
  IN Return([c EXCEPT !.bytes = StoreByte(StoreByte(StoreByte(c.bytes, c.offset, hi),
                                                    c.offset + 1, mi), c.offset + 2, lo)], NoValue)

\* x & 0xFF, (x >> 8) & 0xFF and (x >> 16) & 0xFF are the three low bytes of x
\* in two's complement.
setUint24OrThrow(c, x, littleEndian) ==
  LET lo == x % 256
      mi == (x \div 256) % 256
      hi == (x \div 65536) % 256
      b == c.bytes
      o == c.offset
  IN IF ToBoolean(littleEndian)
     THEN Return([c EXCEPT !.bytes = StoreByte(StoreByte(StoreByte(b, o, lo), o + 1, mi), o + 2, hi)], NoValue)
     ELSE Return([c EXCEPT !.bytes = StoreByte(StoreByte(StoreByte(b, o, hi), o + 1, mi), o + 2, lo)], NoValue)

writeUint24OrThrow(c, x, littleEndian) ==
  LET s == setUint24OrThrow(c, x, littleEndian)
  IN IF s.err # "none" THEN s ELSE [s EXCEPT !.offset = c.offset + 3]

getUint32OrThrow(c, littleEndian) ==
  IF DataViewOutOfRange(c.bytes, c.offset, 4) THEN Throw(c, "RangeError")
  ELSE Return(c, DataViewGet(c.bytes, c.offset, 4, littleEndian))

readUint32OrThrow(c, littleEndian) ==
  LET g == getUint32OrThrow(c, littleEndian)
  IN IF g.err # "none" THEN g ELSE [g EXCEPT !.offset = c.offset + 4]

setUint32OrThrow(c, x, littleEndian) ==
  IF DataViewOutOfRange(c.bytes, c.offset, 4) THEN Throw(c, "RangeError")
  ELSE Return([c EXCEPT !.bytes = DataViewSet(c.bytes, c.offset, ToUintDigits(x, 4), littleEndian)], NoValue)

writeUint32OrThrow(c, x, littleEndian) ==
  LET s == setUint32OrThrow(c, x, littleEndian)
  IN IF s.err # "none" THEN s ELSE [s EXCEPT !.offset = c.offset + 4]

getUint64OrThrow(c, littleEndian) ==
  IF DataViewOutOfRange(c.bytes, c.offset, 8) THEN Throw(c, "RangeError")
  ELSE Return(c, DataViewGet(c.bytes, c.offset, 8, littleEndian))

readUint64OrThrow(c, littleEndian) ==
  LET g == getUint64OrThrow(c, littleEndian)
  IN IF g.err # "none" THEN g ELSE [g EXCEPT !.offset = c.offset + 8]

setUint64OrThrow(c, x, littleEndian) ==
  IF DataViewOutOfRange(c.bytes, c.offset, 8) THEN Throw(c, "RangeError")
  ELSE Return([c EXCEPT !.bytes = DataViewSet(c.bytes, c.offset, ToUintDigits(x, 8), littleEndian)], NoValue)

writeUint64OrThrow(c, x, littleEndian) ==
  LET s == setUint64OrThrow(c, x, littleEndian)
  IN IF s.err # "none" THEN s ELSE [s EXCEPT !.offset = c.offset + 8]

(***************************************************************************)
(* UTF-8 text.  A string is the sequence of its code points (scalar        *)
(* values); one at or above 2^16 takes two UTF-16 code units of length.    *)
(***************************************************************************)

Utf8Bytes(cp) ==
  IF cp < 128 THEN <<cp>>
  ELSE IF cp < 2048 THEN <<192 + (cp \div 64), 128 + (cp % 64)>>
  ELSE IF cp < 65536 THEN <<224 + (cp \div 4096), 128 + ((cp \div 64) % 64), 128 + (cp % 64)>>
  ELSE <<240 + (cp \div 262144), 128 + ((cp \div 4096) % 64), 128 + ((cp \div 64) % 64), 128 + (cp % 64)>>

Utf16Units(cp) == IF cp >= 65536 THEN 2 ELSE 1

RECURSIVE StringLength(_)
\* text.length: the number of UTF-16 code units.
StringLength(text) ==
  IF text = <<>> THEN 0 ELSE Utf16Units(Head(text)) + StringLength(Tail(text))

RECURSIVE EncodeFrom(_, _, _, _, _)
\* TextEncoder.prototype.encodeInto from code point i on: a code point is
\* written only when all its bytes fit in the room left; the first that does not
\* fit ends the encoding.  read counts code units, out holds the bytes written.
EncodeFrom(text, i, read, out, room) ==
  IF i > Len(text) \/ Len(out) + Len(Utf8Bytes(text[i])) > room
  THEN [read |-> read, written |-> Len(out), out |-> out]
  ELSE EncodeFrom(text, i + 1, read + Utf16Units(text[i]), out \o Utf8Bytes(text[i]), room)

\* encodeInto(text, dest) for a window dest of the buffer b: the result and the
\* buffer it leaves.
encodeInto(b, text, dest) ==
  LET e == EncodeFrom(text, 1, 0, <<>>, dest.length)
  IN [read |-> e.read, written |-> e.written,
      bytes |-> [i \in 1..Len(b) |->
                   IF dest.byteOffset < i /\ i <= dest.byteOffset + e.written
                   THEN e.out[i - dest.byteOffset] ELSE b[i]]]

RECURSIVE Utf8Decode(_, _, _, _, _, _)
\* The UTF-8 decoder of TextDecoder (not fatal): cp is the code point being
\* built, left the continuation bytes it still needs, lower..upper the range the
\* next one must be in.  A byte that cannot continue or start a sequence gives
\* U+FFFD, and a byte that ends a sequence early is decoded again as a first byte.
Utf8Decode(s, i, cp, left, lower, upper) ==
  IF i > Len(s) THEN (IF left > 0 THEN <<65533>> ELSE <<>>)
  ELSE LET byte == s[i] IN
    IF left = 0 THEN
      IF byte < 128 THEN <<byte>> \o Utf8Decode(s, i + 1, 0, 0, 128, 191)
      ELSE IF byte >= 194 /\ byte <= 223 THEN Utf8Decode(s, i + 1, byte % 32, 1, 128, 191)
      ELSE IF byte >= 224 /\ byte <= 239
        THEN Utf8Decode(s, i + 1, byte % 16, 2,
                        IF byte = 224 THEN 160 ELSE 128, IF byte = 237 THEN 159 ELSE 191)
      ELSE IF byte >= 240 /\ byte <= 244
        THEN Utf8Decode(s, i + 1, byte % 8, 3,
                        IF byte = 240 THEN 144 ELSE 128, IF byte = 244 THEN 143 ELSE 191)
      ELSE <<65533>> \o Utf8Decode(s, i + 1, 0, 0, 128, 191)
    ELSE IF byte < lower \/ byte > upper THEN <<65533>> \o Utf8Decode(s, i, 0, 0, 128, 191)
    ELSE IF left = 1 THEN <<cp * 64 + (byte % 64)>> \o Utf8Decode(s, i + 1, 0, 0, 128, 191)
    ELSE Utf8Decode(s, i + 1, cp * 64 + (byte % 64), left - 1, 128, 191)

\* new TextDecoder().decode(view): UTF-8, with a leading byte order mark dropped.
TextDecode(s) ==
  LET t == Utf8Decode(s, 1, 0, 0, 128, 191)
  IN IF t # <<>> /\ Head(t) = 65279 THEN Tail(t) ELSE t

getUtf8OrThrow(c, n) ==
  LET g == getOrThrow(c, n)
  IN IF g.err # "none" THEN g ELSE [g EXCEPT !.value = TextDecode(WindowBytes(c.bytes, g.value))]

readUtf8OrThrow(c, n) ==
  LET r == readOrThrow(c, n)
  IN IF r.err # "none" THEN r ELSE [r EXCEPT !.value = TextDecode(WindowBytes(c.bytes, r.value))]

\* encodeInto has written what fits by the time the lengths are compared.
\* A faulty setUtf8OrThrow: a text that was only partly encoded is not
\* reported.
setUtf8OrThrowUnchecked(c, text) ==
  LET result == encodeInto(c.bytes, text, after(c))
  IN Return([c EXCEPT !.bytes = result.bytes], NoValue)

setUtf8OrThrow(c, text) ==
  LET result == encodeInto(c.bytes, text, after(c))
      d == [c EXCEPT !.bytes = result.bytes]
  IN IF result.read # StringLength(text) THEN Throw(d, "CursorWriteUnknownError")
     ELSE Return(d, NoValue)

\* A faulty writeUtf8OrThrow: offset advances by the code units read, not by the
\* bytes written.
writeUtf8OrThrowByRead(c, text) ==
  LET result == encodeInto(c.bytes, text, after(c))
      d == [c EXCEPT !.bytes = result.bytes]
  IN IF result.read # StringLength(text) THEN Throw(d, "CursorWriteUnknownError")
     ELSE Return([d EXCEPT !.offset = c.offset + result.read], NoValue)

writeUtf8OrThrow(c, text) ==
  LET result == encodeInto(c.bytes, text, after(c))
      d == [c EXCEPT !.bytes = result.bytes]
  IN IF result.read # StringLength(text) THEN Throw(d, "CursorWriteUnknownError")
     ELSE Return([d EXCEPT !.offset = c.offset + result.written], NoValue)

(***************************************************************************)
(* NUL-terminated fields and fill.                                         *)
(***************************************************************************)

RECURSIVE NullScan(_, _)
\* The loop of getNullOrThrow: i moves on while it is inside the buffer and
\* the byte there is above 0.
NullScan(b, i) == IF i < Len(b) /\ ByteAt(b, i) > 0 THEN NullScan(b, i + 1) ELSE i

getNullOrThrow(c) ==
  LET i == NullScan(c.bytes, c.offset)
  IN IF i = Len(c.bytes)
     THEN ThrowError(c, "CursorReadNullOverflowError", CursorReadNullOverflowError(c))
     ELSE Return(c, i)

getNulledOrThrow(c) ==
  LET i == getNullOrThrow(c)
  IN IF i.err # "none" THEN i ELSE getOrThrow(c, i.value)

readNulledOrThrow(c) ==
  LET i == getNullOrThrow(c)
  IN IF i.err # "none" THEN i ELSE readOrThrow(c, i.value)

writeNulledOrThrow(c, array) ==
  LET w == writeOrThrow(c, array)
  IN IF w.err # "none" THEN w ELSE writeUint8OrThrow(After(w), 0)

\* try ... finally: offset is put back whether or not the write threw.
setNulledOrThrow(c, array) ==
  LET start == c.offset
      w == writeNulledOrThrow(c, array)
  IN [w EXCEPT !.offset = start]

\* A faulty fillOrThrow: the bytes are filled before the length is checked.
fillOrThrowFillFirst(c, value, n) ==
  LET filled == TypedArrayFill(c.bytes, value, c.offset, c.offset + n)
  IN IF remaining(c) < n THEN Throw([c EXCEPT !.bytes = filled], "CursorWriteLengthOverflowError")
     ELSE Return([bytes |-> filled, offset |-> c.offset + n], NoValue)

fillOrThrow(c, value, n) ==
  IF remaining(c) < n
  THEN ThrowError(c, "CursorWriteLengthOverflowError", CursorLengthOverflowError(c, n))
  ELSE Return([bytes |-> TypedArrayFill(c.bytes, value, c.offset, c.offset + n),
               offset |-> c.offset + n], NoValue)

\* A faulty splitOrThrow: the bytes left after the last whole chunk are not
\* yielded.
splitOrThrowWholeChunksOnly(c, n, at) ==
  IF at \in {"suspendedStart", "suspendedYield"} /\ remaining(c) >= n
  THEN [out |-> readOrThrow(c, n), done |-> FALSE, at |-> "suspendedYield"]
  ELSE [out |-> Return(c, NoValue), done |-> TRUE, at |-> "completed"]

\* A faulty splitOrThrow: the last, short chunk is taken with getOrThrow, so
\* offset stays before it.
splitOrThrowPeekingLast(c, n, at) ==
  IF at \in {"suspendedStart", "suspendedYield"}
  THEN IF remaining(c) >= n
       THEN [out |-> readOrThrow(c, n), done |-> FALSE, at |-> "suspendedYield"]
       ELSE IF remaining(c) # 0
       THEN [out |-> getOrThrow(c, remaining(c)), done |-> FALSE, at |-> "suspendedLast"]
       ELSE [out |-> Return(c, NoValue), done |-> TRUE, at |-> "completed"]
  ELSE [out |-> Return(c, NoValue), done |-> TRUE, at |-> "completed"]

\* A faulty splitOrThrow: a generator that has returned starts over when
\* pulled again.
splitOrThrowRestartable(c, n, at) ==
  IF remaining(c) >= n /\ at # "suspendedLast"
  THEN [out |-> readOrThrow(c, n), done |-> FALSE, at |-> "suspendedYield"]
  ELSE IF remaining(c) # 0 /\ at # "suspendedLast"
  THEN [out |-> readOrThrow(c, remaining(c)), done |-> FALSE, at |-> "suspendedLast"]
  ELSE [out |-> Return(c, NoValue), done |-> TRUE, at |-> "completed"]

\* The generator of splitOrThrow(length), resumed by next() from position at:
\* "suspendedStart" (not started), "suspendedYield" (at the yield of the
\* while loop), "suspendedLast" (at the yield of the if) or "completed".
\* out is what the resumed body did to the cursor and what it yielded or threw.
splitOrThrow(c, n, at) ==
  IF at \in {"suspendedStart", "suspendedYield"}
  THEN IF remaining(c) >= n
       THEN LET r == readOrThrow(c, n)
            IN IF r.err # "none" THEN [out |-> r, done |-> TRUE, at |-> "completed"]
               ELSE [out |-> r, done |-> FALSE, at |-> "suspendedYield"]
       ELSE IF remaining(c) # 0
       THEN LET r == readOrThrow(c, remaining(c))
            IN IF r.err # "none" THEN [out |-> r, done |-> TRUE, at |-> "completed"]
               ELSE [out |-> r, done |-> FALSE, at |-> "suspendedLast"]
       ELSE [out |-> Return(c, NoValue), done |-> TRUE, at |-> "completed"]
  ELSE [out |-> Return(c, NoValue), done |-> TRUE, at |-> "completed"]

(***************************************************************************)
(* The Result-returning forms (cursor.ts).  Ok(v) is an outcome with err   *)
(* "none" and value v, Err(e) an outcome with err e.                       *)
(***************************************************************************)

Ok(c, v) == [bytes |-> c.bytes, offset |-> c.offset, err |-> "none", value |-> v]

Err(c, e) == [bytes |-> c.bytes, offset |-> c.offset, err |-> e, value |-> NoValue]

tryGet(c, n) ==
  IF remaining(c) < n
  THEN [Err(c, "CursorReadLengthOverflowError") EXCEPT !.value = CursorLengthOverflowError(c, n)]
  ELSE Ok(c, subarray(c.bytes, c.offset, c.offset + n))

\* tryGet(length).inspectSync(() => this.offset += length)
tryRead(c, n) ==
  LET g == tryGet(c, n)
  IN IF g.err # "none" THEN g ELSE [g EXCEPT !.offset = c.offset + n]

trySet(c, array) ==
  IF remaining(c) < Len(array)
  THEN [Err(c, "CursorWriteLengthOverflowError") EXCEPT
          !.value = CursorLengthOverflowError(c, Len(array))]
  ELSE IF TypedArraySetOutOfRange(c.bytes, array, c.offset) THEN Throw(c, "RangeError")
  ELSE Ok([c EXCEPT !.bytes = TypedArraySet(c.bytes, array, c.offset)], NoValue)

\* trySet(array).inspectSync(() => this.offset += array.length)
tryWrite(c, array) ==
  LET s == trySet(c, array)
  IN IF s.err # "none" THEN s ELSE [s EXCEPT !.offset = c.offset + Len(array)]

tryGetUint8(c) == Ok(c, ByteAt(c.bytes, c.offset))

tryReadUint8(c) ==
  LET g == tryGetUint8(c)
  IN IF g.err # "none" THEN g ELSE [g EXCEPT !.offset = c.offset + 1]

trySetUint8(c, x) == Ok([c EXCEPT !.bytes = StoreByte(c.bytes, c.offset, x)], NoValue)

tryWriteUint8(c, x) ==
  LET s == trySetUint8(c, x)
  IN IF s.err # "none" THEN s ELSE [s EXCEPT !.offset = c.offset + 1]

\* Whether Buffer.prototype.readUIntBE/LE or writeUIntBE/LE of n bytes at
\* index at throws a RangeError (ERR_OUT_OF_RANGE): the first or the last byte
\* is outside the buffer.
BufferOutOfRange(b, at, n) == at < 0 \/ at + n > Len(b)

\* Buffer.prototype.readUIntBE(offset, 3)
readUIntBE(b, at) == (b[at + 1] * 65536) + (b[at + 2] * 256) + b[at + 3]

\* Buffer.prototype.readUIntLE(offset, 3)
readUIntLE(b, at) == b[at + 1] + (b[at + 2] * 256) + (b[at + 3] * 65536)

\* Buffer.prototype.writeUIntBE(value, offset, 3), value in 0..2^24-1
writeUIntBE(b, value, at) ==
  [i \in 1..Len(b) |->
     IF i = at + 1 THEN value \div 65536
     ELSE IF i = at + 2 THEN (value \div 256) % 256
     ELSE IF i = at + 3 THEN value % 256
     ELSE b[i]]

\* Buffer.prototype.writeUIntLE(value, offset, 3), value in 0..2^24-1
writeUIntLE(b, value, at) ==
  [i \in 1..Len(b) |->
     IF i = at + 1 THEN value % 256
     ELSE IF i = at + 2 THEN (value \div 256) % 256
     ELSE IF i = at + 3 THEN value \div 65536
     ELSE b[i]]

\* getUint24OrThrow of cursor.ts, which reads through a Buffer on the storage.
getUint24OrThrowBuffer(c, littleEndian) ==
  IF BufferOutOfRange(c.bytes, c.offset, 3) THEN Throw(c, "RangeError")
  ELSE IF ToBoolean(littleEndian) THEN Return(c, readUIntLE(c.bytes, c.offset))
  ELSE Return(c, readUIntBE(c.bytes, c.offset))

\* setUint24OrThrow of cursor.ts, which writes through a Buffer on the
\* storage: the value is checked against 0..2^24-1, then the offset.
setUint24OrThrowBuffer(c, x, littleEndian) ==
  IF x > 16777215 \/ x < 0 THEN Throw(c, "RangeError")
  ELSE IF BufferOutOfRange(c.bytes, c.offset, 3) THEN Throw(c, "RangeError")
  ELSE IF ToBoolean(littleEndian)
  THEN Return([c EXCEPT !.bytes = writeUIntLE(c.bytes, x, c.offset)], NoValue)
  ELSE Return([c EXCEPT !.bytes = writeUIntBE(c.bytes, x, c.offset)], NoValue)

readUint24OrThrowBuffer(c, littleEndian) ==
  LET g == getUint24OrThrowBuffer(c, littleEndian)
  IN IF g.err # "none" THEN g ELSE [g EXCEPT !.offset = c.offset + 3]

writeUint24OrThrowBuffer(c, x, littleEndian) ==
  LET s == setUint24OrThrowBuffer(c, x, littleEndian)
  IN IF s.err # "none" THEN s ELSE [s EXCEPT !.offset = c.offset + 3]

\* A faulty tryGetUint16: the room is checked first and a length overflow is
\* reported.
tryGetUint16LengthChecked(c, littleEndian) ==
  IF remaining(c) < 2 THEN Err(c, "CursorReadLengthOverflowError")
  ELSE Ok(c, getUint16OrThrow(c, littleEndian).value)

\* try { return new Ok(this.getUint16OrThrow(littleEndian)) } catch
tryGetUint16(c, littleEndian) ==
  LET g == getUint16OrThrow(c, littleEndian)
  IN IF g.err # "none" THEN Err(After(g), "CursorReadUnknownError") ELSE Ok(After(g), g.value)

tryReadUint16(c, littleEndian) ==
  LET g == tryGetUint16(c, littleEndian)
  IN IF g.err # "none" THEN g ELSE [g EXCEPT !.offset = c.offset + 2]

\* try { return new Ok(this.setUint16OrThrow(x, littleEndian)) } catch
trySetUint16(c, x, littleEndian) ==
  LET s == setUint16OrThrow(c, x, littleEndian)
  IN IF s.err # "none" THEN Err(After(s), "CursorWriteUnknownError") ELSE Ok(After(s), NoValue)

tryWriteUint16(c, x, littleEndian) ==
  LET s == trySetUint16(c, x, littleEndian)
  IN IF s.err # "none" THEN s ELSE [s EXCEPT !.offset = c.offset + 2]

\* try { return new Ok(this.getUint24OrThrow(littleEndian)) } catch
tryGetUint24(c, littleEndian) ==
  LET g == getUint24OrThrowBuffer(c, littleEndian)
  IN IF g.err # "none" THEN Err(After(g), "CursorReadUnknownError") ELSE Ok(After(g), g.value)

tryReadUint24(c, littleEndian) ==
  LET g == tryGetUint24(c, littleEndian)
  IN IF g.err # "none" THEN g ELSE [g EXCEPT !.offset = c.offset + 3]

\* try { return new Ok(this.setUint24OrThrow(x, littleEndian)) } catch
trySetUint24(c, x, littleEndian) ==
  LET s == setUint24OrThrowBuffer(c, x, littleEndian)
  IN IF s.err # "none" THEN Err(After(s), "CursorWriteUnknownError") ELSE Ok(After(s), NoValue)

tryWriteUint24(c, x, littleEndian) ==
  LET s == trySetUint24(c, x, littleEndian)
  IN IF s.err # "none" THEN s ELSE [s EXCEPT !.offset = c.offset + 3]

\* try { return new Ok(this.getUint32OrThrow(littleEndian)) } catch
tryGetUint32(c, littleEndian) ==
  LET g == getUint32OrThrow(c, littleEndian)
  IN IF g.err # "none" THEN Err(After(g), "CursorReadUnknownError") ELSE Ok(After(g), g.value)

tryReadUint32(c, littleEndian) ==
  LET g == tryGetUint32(c, littleEndian)
  IN IF g.err # "none" THEN g ELSE [g EXCEPT !.offset = c.offset + 4]

\* try { return new Ok(this.setUint32OrThrow(x, littleEndian)) } catch
trySetUint32(c, x, littleEndian) ==
  LET s == setUint32OrThrow(c, x, littleEndian)
  IN IF s.err # "none" THEN Err(After(s), "CursorWriteUnknownError") ELSE Ok(After(s), NoValue)

tryWriteUint32(c, x, littleEndian) ==
  LET s == trySetUint32(c, x, littleEndian)
  IN IF s.err # "none" THEN s ELSE [s EXCEPT !.offset = c.offset + 4]

\* try { return new Ok(this.getUint64OrThrow(littleEndian)) } catch
tryGetUint64(c, littleEndian) ==
  LET g == getUint64OrThrow(c, littleEndian)
  IN IF g.err # "none" THEN Err(After(g), "CursorReadUnknownError") ELSE Ok(After(g), g.value)

tryReadUint64(c, littleEndian) ==
  LET g == tryGetUint64(c, littleEndian)
  IN IF g.err # "none" THEN g ELSE [g EXCEPT !.offset = c.offset + 8]

\* try { return new Ok(this.setUint64OrThrow(x, littleEndian)) } catch
trySetUint64(c, x, littleEndian) ==
  LET s == setUint64OrThrow(c, x, littleEndian)
  IN IF s.err # "none" THEN Err(After(s), "CursorWriteUnknownError") ELSE Ok(After(s), NoValue)

tryWriteUint64(c, x, littleEndian) ==
  LET s == trySetUint64(c, x, littleEndian)
  IN IF s.err # "none" THEN s ELSE [s EXCEPT !.offset = c.offset + 8]

\* tryGet(length).mapSync(x => Utf8.decoder.decode(x))
tryGetUtf8(c, n) ==
  LET g == tryGet(c, n)
  IN IF g.err # "none" THEN g ELSE Ok(After(g), TextDecode(WindowBytes(c.bytes, g.value)))

tryReadUtf8(c, n) ==
  LET g == tryRead(c, n)
  IN IF g.err # "none" THEN g ELSE Ok(After(g), TextDecode(WindowBytes(c.bytes, g.value)))

trySetUtf8(c, text) ==
  LET result == encodeInto(c.bytes, text, after(c))
  IN IF result.read # StringLength(text)
     THEN Err([c EXCEPT !.bytes = result.bytes], "CursorWriteUnknownError")
     ELSE Ok([c EXCEPT !.bytes = result.bytes], NoValue)

tryWriteUtf8(c, text) ==
  LET result == encodeInto(c.bytes, text, after(c))
  IN IF result.read # StringLength(text)
     THEN Err([c EXCEPT !.bytes = result.bytes], "CursorWriteUnknownError")
     ELSE Ok([bytes |-> result.bytes, offset |-> c.offset + result.written], NoValue)

tryGetNull(c) ==
  LET i == NullScan(c.bytes, c.offset)
  IN IF i = Len(c.bytes)
     THEN [Err(c, "CursorReadNullOverflowError") EXCEPT !.value = CursorReadNullOverflowError(c)]
     ELSE Ok(c, i)

\* tryGetNull().andThenSync(index => this.tryGet(index))
tryGetNulled(c) ==
  LET i == tryGetNull(c)
  IN IF i.err # "none" THEN i ELSE tryGet(c, i.value)

tryReadNulled(c) ==
  LET i == tryGetNull(c)
  IN IF i.err # "none" THEN i ELSE tryRead(c, i.value)

\* tryWrite(array).andThenSync(() => this.tryWriteUint8(0))
tryWriteNulled(c, array) ==
  LET w == tryWrite(c, array)
  IN IF w.err # "none" THEN w ELSE tryWriteUint8(After(w), 0)

\* A faulty trySetNulled: offset is not put back after the write.
trySetNulledNotRestoring(c, array) == tryWriteNulled(c, array)

trySetNulled(c, array) ==
  LET start == c.offset
      result == tryWriteNulled(c, array)
  IN [result EXCEPT !.offset = start]

\* A faulty trySplit: the last, short chunk is taken with tryGet, so offset
\* stays before it.
trySplitPeekingLast(c, n, at) ==
  IF at \in {"suspendedStart", "suspendedYield"}
  THEN IF remaining(c) >= n
       THEN [out |-> tryRead(c, n), done |-> FALSE, at |-> "suspendedYield"]
       ELSE IF remaining(c) # 0
       THEN [out |-> tryGet(c, remaining(c)), done |-> FALSE, at |-> "suspendedLast"]
       ELSE [out |-> Ok(c, NoValue), done |-> TRUE, at |-> "completed"]
  ELSE [out |-> Ok(c, NoValue), done |-> TRUE, at |-> "completed"]

\* A faulty trySplit: the bytes left after the last whole chunk are read as a
\* whole chunk of n bytes.
trySplitOverReading(c, n, at) ==
  IF at \in {"suspendedStart", "suspendedYield"} /\ remaining(c) # 0
  THEN LET r == tryRead(c, n)
       IN IF r.err # "none" THEN [out |-> r, done |-> TRUE, at |-> "completed"]
          ELSE [out |-> r, done |-> FALSE, at |-> "suspendedYield"]
  ELSE [out |-> Ok(c, NoValue), done |-> TRUE, at |-> "completed"]

\* The generator of trySplit(length), resumed by next() from position at.
trySplit(c, n, at) ==
  IF at \in {"suspendedStart", "suspendedYield"}
  THEN IF remaining(c) >= n
       THEN LET r == tryRead(c, n)
            IN IF r.err # "none" THEN [out |-> r, done |-> TRUE, at |-> "completed"]
               ELSE [out |-> r, done |-> FALSE, at |-> "suspendedYield"]
       ELSE IF remaining(c) # 0
       THEN LET r == tryRead(c, remaining(c))
            IN IF r.err # "none" THEN [out |-> r, done |-> TRUE, at |-> "completed"]
               ELSE [out |-> r, done |-> FALSE, at |-> "suspendedLast"]
       ELSE [out |-> Ok(c, NoValue), done |-> TRUE, at |-> "completed"]
  ELSE [out |-> Ok(c, NoValue), done |-> TRUE, at |-> "completed"]

(***************************************************************************)
(* The Result-only Cursor (the class of cursor.ts with CursorError and the *)
(* overflow errors).  Its methods bear the names of the ones above; here   *)
(* they end in _R.  Its Uint8 accessors go through the DataView, which     *)
(* checks the bounds.                                                      *)
(***************************************************************************)

tryGet_R(c, n) ==
  IF remaining(c) < n THEN Err(c, "CursorReadOverflowError")
  ELSE Ok(c, subarray(c.bytes, c.offset, c.offset + n))

tryRead_R(c, n) ==
  LET g == tryGet_R(c, n)
  IN IF g.err # "none" THEN g ELSE [g EXCEPT !.offset = c.offset + n]

trySet_R(c, array) ==
  IF remaining(c) < Len(array) THEN Err(c, "CursorWriteOverflowError")
  ELSE IF TypedArraySetOutOfRange(c.bytes, array, c.offset) THEN Throw(c, "RangeError")
  ELSE Ok([c EXCEPT !.bytes = TypedArraySet(c.bytes, array, c.offset)], NoValue)

tryWrite_R(c, array) ==
  LET s == trySet_R(c, array)
  IN IF s.err # "none" THEN s ELSE [s EXCEPT !.offset = c.offset + Len(array)]

\* try { return new Ok(this.data.getUint8(this.offset)) } catch
tryGetUint8_R(c) ==
  IF DataViewOutOfRange(c.bytes, c.offset, 1) THEN Err(c, "CursorError")
  ELSE Ok(c, DataViewGet(c.bytes, c.offset, 1, "unset")[1])

tryReadUint8_R(c) ==
  LET g == tryGetUint8_R(c)
  IN IF g.err # "none" THEN g ELSE [g EXCEPT !.offset = c.offset + 1]

\* try { return new Ok(this.data.setUint8(this.offset, x)) } catch
trySetUint8_R(c, x) ==
  IF DataViewOutOfRange(c.bytes, c.offset, 1) THEN Err(c, "CursorError")
  ELSE Ok([c EXCEPT !.bytes = DataViewSet(c.bytes, c.offset, <<x % 256>>, "unset")], NoValue)

tryWriteUint8_R(c, x) ==
  LET s == trySetUint8_R(c, x)
  IN IF s.err # "none" THEN s ELSE [s EXCEPT !.offset = c.offset + 1]

\* The index found is counted from the head of the bytes.
tryGetNull_R(c) ==
  LET i == NullScan(c.bytes, c.offset)
  IN IF i = Len(c.bytes) THEN Err(c, "CursorNullError") ELSE Ok(c, i)

tryGetNulled_R(c) ==
  LET index == tryGetNull_R(c)
  IN IF index.err # "none" THEN index ELSE tryGet_R(c, index.value)

\* tryRead(index.inner), then this.offset += subarray.inner.length
tryReadNulled_R(c) ==
  LET index == tryGetNull_R(c)
  IN IF index.err # "none" THEN index
     ELSE LET r == tryRead_R(c, index.value)
          IN IF r.err # "none" THEN r ELSE [r EXCEPT !.offset = r.offset + r.value.length]

tryWriteNulled_R(c, array) ==
  LET result == tryWrite_R(c, array)
  IN IF result.err # "none" THEN result ELSE tryWriteUint8_R(After(result), 0)

trySetNulled_R(c, array) ==
  LET start == c.offset
      result == tryWriteNulled_R(c, array)
  IN [result EXCEPT !.offset = start]

(***************************************************************************)
(* The arguments the calls are made with.                                  *)
(***************************************************************************)

Lens == 0..MaxN

Arrays == {[i \in 1..k |-> i] : k \in 0..MaxN}

Flags == {"unset", "false", "true"}

Uint8Values == {42, 255, 256, -1}

Uint16Values == {258, 65535, 65536, -1}

Uint24Values == {66051, 16777215, 16777216, -1}

Uint32Values == {<<0, 0, 0, 42>>, <<1, 2, 3, 4>>, <<255, 255, 255, 255>>, <<1, 0, 0, 0, 0>>}

Uint64Values ==
  {<<0, 0, 0, 0, 0, 0, 0, 42>>, <<1, 2, 3, 4, 5, 6, 7, 8>>,
   <<255, 255, 255, 255, 255, 255, 255, 255>>, <<1, 0, 0, 0, 0, 0, 0, 0, 0>>}

\* "", "A", "A\u00e9", "\u20ac" and U+1F600: 0, 1, 3, 3 and 4 bytes of UTF-8.
Texts == {<<>>, <<65>>, <<65, 233>>, <<8364>>, <<128512>>}

FillValues == {0, 1}

\* A buffer with text, a NUL and an invalid byte in it: "A\u00e9", 0, "\u20ac", 255, 1.
SampleByte(i) == <<65, 195, 169, 0, 226, 130, 172, 255, 1>>[((i - 1) % 9) + 1]

\* The buffers a cursor is constructed over: zeroed, without any zero, mixed.
InitBuffers(n) == {[i \in 1..n |-> 0], [i \in 1..n |-> 255], [i \in 1..n |-> SampleByte(i)]}

(***************************************************************************)
(* The caller: constructs a cursor, then calls its methods.                *)
(***************************************************************************)

NoCall == [op |-> "new", args |-> <<>>, pre |-> [bytes |-> <<>>, offset |-> 0],
           err |-> "none", value |-> NoValue]

\* new Cursor(view, offset)
Init ==
  /\ \E n \in 0..MaxLen : bytes \in InitBuffers(n)
  /\ offset \in 0..Len(bytes)
  /\ last = NoCall
  /\ prev = NoCall
  /\ pc = "call"
  /\ calls = 0

\* Method op is called with args and ends with outcome out.
Do(op, args, out) ==
  /\ last' = [op |-> op, args |-> args, pre |-> Cur, err |-> out.err, value |-> out.value]
  /\ bytes' = out.bytes
  /\ offset' = out.offset

\* A call by a caller that makes any calls in any order.
Call(op, args, out) ==
  /\ pc = "call"
  /\ calls < MaxCalls
  /\ Do(op, args, out)
  /\ calls' = calls + 1
  /\ UNCHANGED <<prev, pc>>

\* cursor.offset = x
Seek ==
  \E x \in 0..Len(bytes) :
    Call("seek", [x |-> x], [bytes |-> bytes, offset |-> x, err |-> "none", value |-> NoValue])

GetOrThrow == \E n \in Lens : Call("getOrThrow", [n |-> n], getOrThrow(Cur, n))

ReadOrThrow == \E n \in Lens : Call("readOrThrow", [n |-> n], readOrThrow(Cur, n))

SetOrThrow == \E a \in Arrays : Call("setOrThrow", [array |-> a], setOrThrow(Cur, a))

WriteOrThrow == \E a \in Arrays : Call("writeOrThrow", [array |-> a], writeOrThrow(Cur, a))

GetUint8OrThrow == Call("getUint8OrThrow", [w |-> 1], getUint8OrThrow(Cur))

ReadUint8OrThrow == Call("readUint8OrThrow", [w |-> 1], readUint8OrThrow(Cur))

SetUint8OrThrow ==
  \E x \in Uint8Values : Call("setUint8OrThrow", [w |-> 1, x |-> x], setUint8OrThrow(Cur, x))

WriteUint8OrThrow ==
  \E x \in Uint8Values : Call("writeUint8OrThrow", [w |-> 1, x |-> x], writeUint8OrThrow(Cur, x))

GetUint16OrThrow ==
  \E le \in Flags : Call("getUint16OrThrow", [w |-> 2, le |-> le], getUint16OrThrow(Cur, le))

ReadUint16OrThrow ==
  \E le \in Flags : Call("readUint16OrThrow", [w |-> 2, le |-> le], readUint16OrThrow(Cur, le))

SetUint16OrThrow ==
  \E x \in Uint16Values, le \in Flags :
    Call("setUint16OrThrow", [w |-> 2, x |-> x, le |-> le], setUint16OrThrow(Cur, x, le))

WriteUint16OrThrow ==
  \E x \in Uint16Values, le \in Flags :
    Call("writeUint16OrThrow", [w |-> 2, x |-> x, le |-> le], writeUint16OrThrow(Cur, x, le))

GetUint24OrThrow ==
  \E le \in Flags : Call("getUint24OrThrow", [w |-> 3, le |-> le], getUint24OrThrow(Cur, le))

ReadUint24OrThrow ==
  \E le \in Flags : Call("readUint24OrThrow", [w |-> 3, le |-> le], readUint24OrThrow(Cur, le))

SetUint24OrThrow ==
  \E x \in Uint24Values, le \in Flags :
    Call("setUint24OrThrow", [w |-> 3, x |-> x, le |-> le], setUint24OrThrow(Cur, x, le))

WriteUint24OrThrow ==
  \E x \in Uint24Values, le \in Flags :
    Call("writeUint24OrThrow", [w |-> 3, x |-> x, le |-> le], writeUint24OrThrow(Cur, x, le))

GetUint32OrThrow ==
  \E le \in Flags : Call("getUint32OrThrow", [w |-> 4, le |-> le], getUint32OrThrow(Cur, le))

ReadUint32OrThrow ==
  \E le \in Flags : Call("readUint32OrThrow", [w |-> 4, le |-> le], readUint32OrThrow(Cur, le))

SetUint32OrThrow ==
  \E x \in Uint32Values, le \in Flags :
    Call("setUint32OrThrow", [w |-> 4, x |-> x, le |-> le], setUint32OrThrow(Cur, x, le))

WriteUint32OrThrow ==
  \E x \in Uint32Values, le \in Flags :
    Call("writeUint32OrThrow", [w |-> 4, x |-> x, le |-> le], writeUint32OrThrow(Cur, x, le))

GetUint64OrThrow ==
  \E le \in Flags : Call("getUint64OrThrow", [w |-> 8, le |-> le], getUint64OrThrow(Cur, le))

ReadUint64OrThrow ==
  \E le \in Flags : Call("readUint64OrThrow", [w |-> 8, le |-> le], readUint64OrThrow(Cur, le))

SetUint64OrThrow ==
  \E x \in Uint64Values, le \in Flags :
    Call("setUint64OrThrow", [w |-> 8, x |-> x, le |-> le], setUint64OrThrow(Cur, x, le))

WriteUint64OrThrow ==
  \E x \in Uint64Values, le \in Flags :
    Call("writeUint64OrThrow", [w |-> 8, x |-> x, le |-> le], writeUint64OrThrow(Cur, x, le))

GetUtf8OrThrow == \E n \in Lens : Call("getUtf8OrThrow", [n |-> n], getUtf8OrThrow(Cur, n))

ReadUtf8OrThrow == \E n \in Lens : Call("readUtf8OrThrow", [n |-> n], readUtf8OrThrow(Cur, n))

SetUtf8OrThrow == \E t \in Texts : Call("setUtf8OrThrow", [text |-> t], setUtf8OrThrow(Cur, t))

WriteUtf8OrThrow == \E t \in Texts : Call("writeUtf8OrThrow", [text |-> t], writeUtf8OrThrow(Cur, t))

GetNullOrThrow == Call("getNullOrThrow", <<>>, getNullOrThrow(Cur))

GetNulledOrThrow == Call("getNulledOrThrow", <<>>, getNulledOrThrow(Cur))

ReadNulledOrThrow == Call("readNulledOrThrow", <<>>, readNulledOrThrow(Cur))

SetNulledOrThrow ==
  \E a \in Arrays : Call("setNulledOrThrow", [array |-> a], setNulledOrThrow(Cur, a))

WriteNulledOrThrow ==
  \E a \in Arrays : Call("writeNulledOrThrow", [array |-> a], writeNulledOrThrow(Cur, a))

FillOrThrow ==
  \E v \in FillValues, n \in Lens :
    Call("fillOrThrow", [value |-> v, n |-> n], fillOrThrow(Cur, v, n))

Next ==
  \/ Seek
  \/ GetOrThrow \/ ReadOrThrow \/ SetOrThrow \/ WriteOrThrow
  \/ GetUint8OrThrow \/ ReadUint8OrThrow \/ SetUint8OrThrow \/ WriteUint8OrThrow
  \/ GetUint16OrThrow \/ ReadUint16OrThrow \/ SetUint16OrThrow \/ WriteUint16OrThrow
  \/ GetUint24OrThrow \/ ReadUint24OrThrow \/ SetUint24OrThrow \/ WriteUint24OrThrow
  \/ GetUint32OrThrow \/ ReadUint32OrThrow \/ SetUint32OrThrow \/ WriteUint32OrThrow
  \/ GetUint64OrThrow \/ ReadUint64OrThrow \/ SetUint64OrThrow \/ WriteUint64OrThrow
  \/ GetUtf8OrThrow \/ ReadUtf8OrThrow \/ SetUtf8OrThrow \/ WriteUtf8OrThrow
  \/ GetNullOrThrow \/ GetNulledOrThrow \/ ReadNulledOrThrow
  \/ SetNulledOrThrow \/ WriteNulledOrThrow
  \/ FillOrThrow

Spec == Init /\ [][Next]_vars

(***************************************************************************)
(* The caller of the "write then read" tests: writes at offset s, puts     *)
(* offset back to s, and reads what it wrote.                              *)
(***************************************************************************)

InitRT ==
  /\ \E n \in 0..MaxLen : bytes \in InitBuffers(n)
  /\ offset \in 0..Len(bytes)
  /\ last = NoCall
  /\ prev = NoCall
  /\ pc = "write"
  /\ calls = 0

RTWrite ==
  /\ pc = "write"
  /\ \/ \E a \in Arrays : Do("writeOrThrow", [array |-> a], writeOrThrow(Cur, a))
     \/ \E x \in Uint8Values :
          Do("writeUint8OrThrow", [w |-> 1, x |-> x], writeUint8OrThrow(Cur, x))
     \/ \E x \in Uint16Values, le \in Flags :
          Do("writeUint16OrThrow", [w |-> 2, x |-> x, le |-> le], writeUint16OrThrow(Cur, x, le))
     \/ \E x \in Uint24Values, le \in Flags :
          Do("writeUint24OrThrow", [w |-> 3, x |-> x, le |-> le], writeUint24OrThrow(Cur, x, le))
     \/ \E x \in Uint32Values, le \in Flags :
          Do("writeUint32OrThrow", [w |-> 4, x |-> x, le |-> le], writeUint32OrThrow(Cur, x, le))
     \/ \E x \in Uint64Values, le \in Flags :
          Do("writeUint64OrThrow", [w |-> 8, x |-> x, le |-> le], writeUint64OrThrow(Cur, x, le))
     \/ \E a \in Arrays :
          Do("writeNulledOrThrow", [array |-> a], writeNulledOrThrow(Cur, a))
  /\ pc' = "written"
  /\ UNCHANGED <<prev, calls>>

\* cursor.offset = s, the offset the write was made at
RTRewind ==
  /\ pc = "written"
  /\ offset' = last.pre.offset
  /\ prev' = last
  /\ pc' = "rewound"
  /\ UNCHANGED <<bytes, last, calls>>

RTRead ==
  /\ pc = "rewound"
  /\ \/ /\ prev.op = "writeOrThrow"
        /\ LET n == Len(prev.args.array) IN Do("readOrThrow", [n |-> n], readOrThrow(Cur, n))
     \/ /\ prev.op = "writeUint8OrThrow"
        /\ Do("readUint8OrThrow", [w |-> 1], readUint8OrThrow(Cur))
     \/ /\ prev.op = "writeUint16OrThrow"
        /\ \E le \in Flags : Do("readUint16OrThrow", [w |-> 2, le |-> le], readUint16OrThrow(Cur, le))
     \/ /\ prev.op = "writeUint24OrThrow"
        /\ \E le \in Flags : Do("readUint24OrThrow", [w |-> 3, le |-> le], readUint24OrThrow(Cur, le))
     \/ /\ prev.op = "writeUint32OrThrow"
        /\ \E le \in Flags : Do("readUint32OrThrow", [w |-> 4, le |-> le], readUint32OrThrow(Cur, le))
     \/ /\ prev.op = "writeUint64OrThrow"
        /\ \E le \in Flags : Do("readUint64OrThrow", [w |-> 8, le |-> le], readUint64OrThrow(Cur, le))
     \/ /\ prev.op = "writeNulledOrThrow"
        /\ Do("readNulledOrThrow", <<>>, readNulledOrThrow(Cur))
  /\ pc' = "read"
  /\ UNCHANGED <<prev, calls>>

NextRT == RTWrite \/ RTRewind \/ RTRead

SpecRT == InitRT /\ [][NextRT]_vars

(***************************************************************************)
(* The caller of the "split" test: makes a generator and pulls it with     *)
(* next(), nothing else in between.  prev is the generator: the method     *)
(* that made it, its argument, the cursor it was made on and the windows   *)
(* it has yielded; pc is the generator's position.                         *)
(***************************************************************************)

\* The pulls and yielded windows the caller keeps count of.
MaxPulls == MaxLen + 3

SplitLens == 0..MaxN

GeneratorStates == {"suspendedStart", "suspendedYield", "suspendedLast", "completed"}

InitSplit == Init

MakeGenerator(op, n) ==
  /\ pc = "call"
  /\ calls = 0
  /\ last' = [op |-> op, args |-> [n |-> n], pre |-> Cur, err |-> "none", value |-> NoValue]
  /\ prev' = [op |-> op, args |-> [n |-> n], pre |-> Cur, err |-> "none", value |-> <<>>]
  /\ pc' = "suspendedStart"
  /\ UNCHANGED <<bytes, offset, calls>>

\* const splitter = cursor.splitOrThrow(n)
SplitOrThrow == \E n \in SplitLens : MakeGenerator("splitOrThrow", n)

\* const splitter = cursor.trySplit(n)
TrySplit == \E n \in SplitLens : MakeGenerator("trySplit", n)

\* result = splitter.next()
GeneratorNext ==
  /\ pc \in GeneratorStates
  /\ LET g == IF prev.op = "splitOrThrow" THEN splitOrThrow(Cur, prev.args.n, pc)
              ELSE trySplit(Cur, prev.args.n, pc)
     IN /\ Do("next", [at |-> pc],
              [g.out EXCEPT !.value = [done |-> g.done, value |-> g.out.value]])
        /\ prev' = IF ~g.done /\ Len(prev.value) < MaxPulls
                   THEN [prev EXCEPT !.value = Append(@, g.out.value)]
                   ELSE prev
        /\ pc' = g.at
  /\ calls' = Min(calls + 1, MaxPulls)

NextSplit == SplitOrThrow \/ TrySplit \/ GeneratorNext

SpecSplit == InitSplit /\ [][NextSplit]_vars

\* The caller keeps pulling.
SpecSplitFair == SpecSplit /\ WF_vars(SplitOrThrow \/ TrySplit) /\ WF_vars(GeneratorNext)

(***************************************************************************)
(* A caller that first takes or puts one byte, as for a tag in front of a  *)
(* field, and then makes any call.                                         *)
(***************************************************************************)

InitByte ==
  /\ \E n \in 0..MaxLen : bytes \in InitBuffers(n)
  /\ offset \in 0..Len(bytes)
  /\ last = NoCall
  /\ prev = NoCall
  /\ pc = "byte"
  /\ calls = 0

FirstByte ==
  /\ pc = "byte"
  /\ \/ Do("readUint8OrThrow", [w |-> 1], readUint8OrThrow(Cur))
     \/ \E x \in Uint8Values :
          Do("writeUint8OrThrow", [w |-> 1, x |-> x], writeUint8OrThrow(Cur, x))
  /\ pc' = "call"
  /\ UNCHANGED <<prev, calls>>

NextByte == FirstByte \/ Next

SpecByte == InitByte /\ [][NextByte]_vars

(***************************************************************************)
(* The caller of the class of cursor.ts, which has each operation in a     *)
(* throwing and in a Result-returning form: makes one call of a            *)
(* Result-returning form, or of setNulledOrThrow, or splits.               *)
(***************************************************************************)

TryGet == \E n \in Lens : Call("tryGet", [n |-> n], tryGet(Cur, n))

TryRead == \E n \in Lens : Call("tryRead", [n |-> n], tryRead(Cur, n))

TrySet == \E a \in Arrays : Call("trySet", [array |-> a], trySet(Cur, a))

TryWrite == \E a \in Arrays : Call("tryWrite", [array |-> a], tryWrite(Cur, a))

TryGetUint8 == Call("tryGetUint8", [w |-> 1], tryGetUint8(Cur))

TryReadUint8 == Call("tryReadUint8", [w |-> 1], tryReadUint8(Cur))

TrySetUint8 ==
  \E x \in Uint8Values : Call("trySetUint8", [w |-> 1, x |-> x], trySetUint8(Cur, x))

TryWriteUint8 ==
  \E x \in Uint8Values : Call("tryWriteUint8", [w |-> 1, x |-> x], tryWriteUint8(Cur, x))

TryGetUint16 ==
  \E le \in Flags : Call("tryGetUint16", [w |-> 2, le |-> le], tryGetUint16(Cur, le))

TryReadUint16 ==
  \E le \in Flags : Call("tryReadUint16", [w |-> 2, le |-> le], tryReadUint16(Cur, le))

TrySetUint16 ==
  \E x \in Uint16Values, le \in Flags :
    Call("trySetUint16", [w |-> 2, x |-> x, le |-> le], trySetUint16(Cur, x, le))

TryWriteUint16 ==
  \E x \in Uint16Values, le \in Flags :
    Call("tryWriteUint16", [w |-> 2, x |-> x, le |-> le], tryWriteUint16(Cur, x, le))

TryGetUint24 ==
  \E le \in Flags : Call("tryGetUint24", [w |-> 3, le |-> le], tryGetUint24(Cur, le))

TryReadUint24 ==
  \E le \in Flags : Call("tryReadUint24", [w |-> 3, le |-> le], tryReadUint24(Cur, le))

TrySetUint24 ==
  \E x \in Uint24Values, le \in Flags :
    Call("trySetUint24", [w |-> 3, x |-> x, le |-> le], trySetUint24(Cur, x, le))

TryWriteUint24 ==
  \E x \in Uint24Values, le \in Flags :
    Call("tryWriteUint24", [w |-> 3, x |-> x, le |-> le], tryWriteUint24(Cur, x, le))

TryGetUint32 ==
  \E le \in Flags : Call("tryGetUint32", [w |-> 4, le |-> le], tryGetUint32(Cur, le))

TryReadUint32 ==
  \E le \in Flags : Call("tryReadUint32", [w |-> 4, le |-> le], tryReadUint32(Cur, le))

TrySetUint32 ==
  \E x \in Uint32Values, le \in Flags :
    Call("trySetUint32", [w |-> 4, x |-> x, le |-> le], trySetUint32(Cur, x, le))

TryWriteUint32 ==
  \E x \in Uint32Values, le \in Flags :
    Call("tryWriteUint32", [w |-> 4, x |-> x, le |-> le], tryWriteUint32(Cur, x, le))

TryGetUint64 ==
  \E le \in Flags : Call("tryGetUint64", [w |-> 8, le |-> le], tryGetUint64(Cur, le))

TryReadUint64 ==
  \E le \in Flags : Call("tryReadUint64", [w |-> 8, le |-> le], tryReadUint64(Cur, le))

TrySetUint64 ==
  \E x \in Uint64Values, le \in Flags :
    Call("trySetUint64", [w |-> 8, x |-> x, le |-> le], trySetUint64(Cur, x, le))

TryWriteUint64 ==
  \E x \in Uint64Values, le \in Flags :
    Call("tryWriteUint64", [w |-> 8, x |-> x, le |-> le], tryWriteUint64(Cur, x, le))

TryGetUtf8 == \E n \in Lens : Call("tryGetUtf8", [n |-> n], tryGetUtf8(Cur, n))

TryReadUtf8 == \E n \in Lens : Call("tryReadUtf8", [n |-> n], tryReadUtf8(Cur, n))

TrySetUtf8 == \E text \in Texts : Call("trySetUtf8", [text |-> text], trySetUtf8(Cur, text))

TryWriteUtf8 == \E text \in Texts : Call("tryWriteUtf8", [text |-> text], tryWriteUtf8(Cur, text))

TryGetNull == Call("tryGetNull", <<>>, tryGetNull(Cur))

TryGetNulled == Call("tryGetNulled", <<>>, tryGetNulled(Cur))

TryReadNulled == Call("tryReadNulled", <<>>, tryReadNulled(Cur))

TrySetNulled == \E a \in Arrays : Call("trySetNulled", [array |-> a], trySetNulled(Cur, a))

TryWriteNulled == \E a \in Arrays : Call("tryWriteNulled", [array |-> a], tryWriteNulled(Cur, a))

NextTry ==
  \/ TryGet \/ TryRead \/ TrySet \/ TryWrite
  \/ TryGetUint8 \/ TryReadUint8 \/ TrySetUint8 \/ TryWriteUint8
  \/ TryGetUint16 \/ TryReadUint16 \/ TrySetUint16 \/ TryWriteUint16
  \/ TryGetUint24 \/ TryReadUint24 \/ TrySetUint24 \/ TryWriteUint24
  \/ TryGetUint32 \/ TryReadUint32 \/ TrySetUint32 \/ TryWriteUint32
  \/ TryGetUint64 \/ TryReadUint64 \/ TrySetUint64 \/ TryWriteUint64
  \/ TryGetUtf8 \/ TryReadUtf8 \/ TrySetUtf8 \/ TryWriteUtf8
  \/ TryGetNull \/ TryGetNulled \/ TryReadNulled \/ TrySetNulled \/ TryWriteNulled
  \/ SetNulledOrThrow
  \/ SplitOrThrow \/ TrySplit \/ GeneratorNext

SpecTry == Init /\ [][NextTry]_vars

(***************************************************************************)
(* A caller that keeps a window it took with getOrThrow or readOrThrow     *)
(* (prev is the call that returned it), then sets, writes and fills        *)
(* through the cursor or stores through the window, and takes the same     *)
(* bytes again.                                                            *)
(***************************************************************************)

\* How many changes the caller makes while it holds the window.
MaxChanges == MaxCalls + 1

\* The bytes stored through a window.
StoredValues == {7, 263}

InitAlias ==
  /\ \E n \in 0..MaxLen : bytes = [i \in 1..n |-> SampleByte(i)]
  /\ offset \in 0..Len(bytes)
  /\ last = NoCall
  /\ prev = NoCall
  /\ pc = "take"
  /\ calls = 0

\* const window = cursor.getOrThrow(n), or cursor.readOrThrow(n)
TakeWindow ==
  /\ pc = "take"
  /\ \E n \in Lens :
       \/ Do("getOrThrow", [n |-> n], getOrThrow(Cur, n))
       \/ Do("readOrThrow", [n |-> n], readOrThrow(Cur, n))
  /\ prev' = last'
  /\ pc' = IF last'.err = "none" THEN "held" ELSE "failed"
  /\ UNCHANGED calls

\* cursor.setOrThrow(a), cursor.writeOrThrow(a) or cursor.fillOrThrow(v, n)
ChangeByCursor ==
  /\ pc = "held"
  /\ calls < MaxChanges
  /\ \/ \E a \in Arrays : Do("setOrThrow", [array |-> a], setOrThrow(Cur, a))
     \/ \E a \in Arrays : Do("writeOrThrow", [array |-> a], writeOrThrow(Cur, a))
     \/ \E v \in FillValues, n \in Lens :
          Do("fillOrThrow", [value |-> v, n |-> n], fillOrThrow(Cur, v, n))
  /\ calls' = calls + 1
  /\ UNCHANGED <<prev, pc>>

\* window[i] = x: a store into the storage at the window's place; outside
\* the window nothing happens.
StoreThroughWindow ==
  /\ pc = "held"
  /\ calls < MaxChanges
  /\ \E i \in 0..MaxN, x \in StoredValues :
       /\ last' = [op |-> "store", args |-> [i |-> i, x |-> x], pre |-> Cur,
                   err |-> "none", value |-> NoValue]
       /\ bytes' = IF i < prev.value.length
                   THEN StoreByte(bytes, prev.value.byteOffset + i, x)
                   ELSE bytes
  /\ calls' = calls + 1
  /\ UNCHANGED <<offset, prev, pc>>

\* cursor.offset = s, then cursor.getOrThrow(n) or cursor.readOrThrow(n) as
\* when the window was taken
TakeAgain ==
  /\ pc = "held"
  /\ calls >= 1
  /\ LET c == [bytes |-> bytes, offset |-> prev.pre.offset]
         out == IF prev.op = "getOrThrow" THEN getOrThrow(c, prev.args.n)
                ELSE readOrThrow(c, prev.args.n)
     IN /\ last' = [op |-> prev.op, args |-> prev.args, pre |-> c,
                    err |-> out.err, value |-> out.value]
        /\ bytes' = out.bytes
        /\ offset' = out.offset
  /\ pc' = "taken again"
  /\ UNCHANGED <<prev, calls>>

NextAlias == TakeWindow \/ ChangeByCursor \/ StoreThroughWindow \/ TakeAgain

SpecAlias == InitAlias /\ [][NextAlias]_vars

(***************************************************************************)
(* Construction.  A view handed to the constructor is a typed array on an  *)
(* ArrayBuffer: the buffer's bytes, where the view starts in it, how many  *)
(* elements it has and how many bytes an element takes.                    *)
(***************************************************************************)

byteLength(view) == view.length * view.BYTES_PER_ELEMENT

\* A faulty fromView: the view's element count is taken for its byte length.
fromViewByElements(view) ==
  SubSeq(view.buffer, view.byteOffset + 1, view.byteOffset + view.length)

\* Bytes.fromView(view) and Data.fromView(view): a Uint8Array and a DataView
\* on view.buffer from view.byteOffset, view.byteLength bytes long; here the
\* bytes of that part of the buffer.
fromView(view) ==
  SubSeq(view.buffer, view.byteOffset + 1, view.byteOffset + byteLength(view))

\* new Cursor(view, offset = 0): the default stands in for an argument left
\* out (undefined).
constructor(view, o) ==
  [bytes |-> fromView(view), offset |-> IF o = Undefined THEN 0 ELSE o]

\* The views: Uint8Array, Uint16Array and Uint32Array on a buffer of MaxLen
\* bytes, from its head or from byte 4.
Views ==
  {v \in [buffer : {[i \in 1..MaxLen |-> SampleByte(i)]}, byteOffset : {0, 4},
          length : 0..MaxLen, BYTES_PER_ELEMENT : {1, 2, 4}] :
     v.byteOffset + byteLength(v) <= MaxLen}

\* The initial offsets given with a view: none, inside, at the end, past it.
Offsets(view) == {Undefined, 0, 1, byteLength(view), byteLength(view) + 1, 120}

InitNew ==
  /\ bytes = <<>>
  /\ offset = 0
  /\ last = NoCall
  /\ prev = NoCall
  /\ pc = "new"
  /\ calls = 0

\* const cursor = new Cursor(view, offset)
New ==
  /\ pc = "new"
  /\ \E view \in Views : \E o \in Offsets(view) :
       /\ last' = [op |-> "constructor", args |-> [view |-> view, offset |-> o],
                   pre |-> Cur, err |-> "none", value |-> NoValue]
       /\ bytes' = constructor(view, o).bytes
       /\ offset' = constructor(view, o).offset
  /\ pc' = "call"
  /\ UNCHANGED <<prev, calls>>

NextNew == New \/ Next

SpecNew == InitNew /\ [][NextNew]_vars

\* cursor.inner = view (cursor.ts): the views on the storage are dropped and
\* made again from the new inner view when next used.
SetInner ==
  \E view \in Views :
    Call("inner", [view |-> view],
         [bytes |-> fromView(view), offset |-> offset, err |-> "none", value |-> NoValue])

NextInner == SetInner \/ NextTry

SpecInner == Init /\ [][NextInner]_vars

(***************************************************************************)
(* A caller whose length arguments are any integers: `length: number` takes *)
(* a negative one as well.                                                 *)
(***************************************************************************)

NegativeLens == {0 - n : n \in 1..MaxN}

GetOrThrowNegative ==
  \E n \in NegativeLens : Call("getOrThrow", [n |-> n], getOrThrow(Cur, n))

ReadOrThrowNegative ==
  \E n \in NegativeLens : Call("readOrThrow", [n |-> n], readOrThrow(Cur, n))

FillOrThrowNegative ==
  \E v \in FillValues, n \in NegativeLens :
    Call("fillOrThrow", [value |-> v, n |-> n], fillOrThrow(Cur, v, n))

NextAnyLength ==
  \/ Next
  \/ GetOrThrowNegative \/ ReadOrThrowNegative \/ FillOrThrowNegative
  \/ SplitOrThrow \/ GeneratorNext

SpecAnyLength == Init /\ [][NextAnyLength]_vars

(***************************************************************************)
(* A caller that splits a cursor wherever it stands, after one byte was    *)
(* taken or put or at once, by chunks of any integer length, and pulls a   *)
(* counted number of times.                                                *)
(***************************************************************************)

InitSplitAnywhere == Init \/ InitByte

SplitOrThrowAnyLength ==
  \E n \in SplitLens \cup NegativeLens : MakeGenerator("splitOrThrow", n)

TrySplitAnyLength ==
  \E n \in SplitLens \cup NegativeLens : MakeGenerator("trySplit", n)

\* result = splitter.next(), at most MaxPulls times
GeneratorNextCounted == calls < MaxPulls /\ GeneratorNext

NextSplitAnywhere ==
  FirstByte \/ SplitOrThrowAnyLength \/ TrySplitAnyLength \/ GeneratorNextCounted

SpecSplitAnywhere == InitSplitAnywhere /\ [][NextSplitAnywhere]_vars

(***************************************************************************)
(* A caller that pulls a split to its end, puts offset back, and pulls the *)
(* same generator again.                                                   *)
(***************************************************************************)

\* cursor.offset = x, once the generator has returned
GeneratorSeek ==
  /\ pc = "completed"
  /\ \E x \in 0..Len(bytes) :
       Do("seek", [x |-> x], [bytes |-> bytes, offset |-> x, err |-> "none", value |-> NoValue])
  /\ UNCHANGED <<prev, pc, calls>>

NextSplitSeek == SplitOrThrow \/ TrySplit \/ GeneratorNext \/ GeneratorSeek

SpecSplitSeek == InitSplit /\ [][NextSplitSeek]_vars

(***************************************************************************)
(* A caller of the Result-only Cursor.                                     *)
(***************************************************************************)

TryGet_R == \E n \in Lens : Call("tryGet", [n |-> n], tryGet_R(Cur, n))

TryRead_R == \E n \in Lens : Call("tryRead", [n |-> n], tryRead_R(Cur, n))

TrySet_R == \E a \in Arrays : Call("trySet", [array |-> a], trySet_R(Cur, a))

TryWrite_R == \E a \in Arrays : Call("tryWrite", [array |-> a], tryWrite_R(Cur, a))

TryGetUint8_R == Call("tryGetUint8", [w |-> 1], tryGetUint8_R(Cur))

TryReadUint8_R == Call("tryReadUint8", [w |-> 1], tryReadUint8_R(Cur))

TrySetUint8_R ==
  \E x \in Uint8Values : Call("trySetUint8", [w |-> 1, x |-> x], trySetUint8_R(Cur, x))

TryWriteUint8_R ==
  \E x \in Uint8Values : Call("tryWriteUint8", [w |-> 1, x |-> x], tryWriteUint8_R(Cur, x))

TryGetNull_R == Call("tryGetNull", <<>>, tryGetNull_R(Cur))

TryGetNulled_R == Call("tryGetNulled", <<>>, tryGetNulled_R(Cur))

TryReadNulled_R == Call("tryReadNulled", <<>>, tryReadNulled_R(Cur))

TrySetNulled_R == \E a \in Arrays : Call("trySetNulled", [array |-> a], trySetNulled_R(Cur, a))

TryWriteNulled_R ==
  \E a \in Arrays : Call("tryWriteNulled", [array |-> a], tryWriteNulled_R(Cur, a))

NextResultOnly ==
  \/ TryGet_R \/ TryRead_R \/ TrySet_R \/ TryWrite_R
  \/ TryGetUint8_R \/ TryReadUint8_R \/ TrySetUint8_R \/ TryWriteUint8_R
  \/ TryGetNull_R \/ TryGetNulled_R \/ TryReadNulled_R \/ TrySetNulled_R \/ TryWriteNulled_R

SpecResultOnly == Init /\ [][NextResultOnly]_vars

(***************************************************************************)
(* A caller that makes two split generators on one cursor and pulls them   *)
(* in any order.  prev holds both: their chunk lengths, their positions,   *)
(* how many windows each has yielded, and the windows in the order they    *)
(* were yielded.                                                           *)
(***************************************************************************)

ChunkLens == 1..MaxN

SplitKinds == {"splitOrThrow", "trySplit"}

\* const a = cursor.splitOrThrow(n1) or cursor.trySplit(n1), and b likewise
SplitTwice ==
  /\ pc = "call"
  /\ \E n1 \in ChunkLens, n2 \in ChunkLens, k1 \in SplitKinds, k2 \in SplitKinds :
       /\ prev' = [op |-> "split twice", args |-> [n |-> <<n1, n2>>, op |-> <<k1, k2>>],
                   pre |-> Cur, err |-> "none", value |-> <<>>,
                   at |-> <<"suspendedStart", "suspendedStart">>, yielded |-> <<0, 0>>]
       /\ last' = [op |-> "split twice", args |-> [n |-> <<n1, n2>>, op |-> <<k1, k2>>],
                   pre |-> Cur, err |-> "none", value |-> NoValue]
  /\ pc' = "pulling"
  /\ UNCHANGED <<bytes, offset, calls>>

\* result = a.next() or result = b.next()
PullEither ==
  /\ pc = "pulling"
  /\ \E g \in {1, 2} :
       LET r == IF prev.args.op[g] = "splitOrThrow"
                THEN splitOrThrow(Cur, prev.args.n[g], prev.at[g])
                ELSE trySplit(Cur, prev.args.n[g], prev.at[g])
       IN /\ Do("next", [at |-> prev.at[g], g |-> g],
                [r.out EXCEPT !.value = [done |-> r.done, value |-> r.out.value]])
          /\ prev' = IF ~r.done /\ Len(prev.value) < MaxPulls
                     THEN [prev EXCEPT !.at[g] = r.at, !.value = Append(@, r.out.value),
                                       !.yielded[g] = @ + 1]
                     ELSE [prev EXCEPT !.at[g] = r.at]
  /\ UNCHANGED <<pc, calls>>

NextSplitTwice == SplitTwice \/ PullEither

SpecSplitTwice == Init /\ [][NextSplitTwice]_vars

(***************************************************************************)
(* Copied and Uncopied.  A Uint8Array is named by its storage: 0 is the    *)
(* caller's bytes, k >= 1 the k-th storage made by slice().  A Copied or   *)
(* Uncopied object is its class and the storage its `bytes` field names;   *)
(* the Copied objects made so far are kept in a list, and an object is the *)
(* same as another when it stands at the same place of the list.           *)
(***************************************************************************)

\* The bytes in a storage: b the caller's bytes, h the storages made.
Contents(b, h, ref) == IF ref = 0 THEN b ELSE h[ref]

\* A faulty slice: no storage is made, the array itself is returned.
sliceAliasing(b, h, ref) == [heap |-> h, ref |-> ref]

\* %TypedArray%.prototype.slice(): a new storage holding the bytes as they
\* are now.
slice(b, h, ref) == [heap |-> Append(h, Contents(b, h, ref)), ref |-> Len(h) + 1]

\* Copied.from(bytes): new Copied(bytes.slice())
Copied_from(b, h, ref) ==
  LET sliced == slice(b, h, ref)
  IN [heap |-> sliced.heap, object |-> [class |-> "Copied", bytes |-> sliced.ref]]

\* Copied.get() and Uncopied.get(): this.bytes
Copiable_get(this) == this.bytes

\* Copied.copy(): this.  Objects are named by their place in the list.
Copied_copy(id) == id

\* Uncopied.copy(): Copied.from(this.bytes)
Uncopied_copy(b, h, this) == Copied_from(b, h, this.bytes)

\* new Uncopied(bytes) on the caller's bytes
Uncopied == [class |-> "Uncopied", bytes |-> 0]

MaxCopies == MaxCalls + 1

InitCopy ==
  /\ \E n \in 0..MaxN : bytes = [i \in 1..n |-> SampleByte(i)]
  /\ offset = 0
  /\ last = NoCall
  /\ prev = [op |-> "copies", args |-> <<>>, pre |-> Cur, err |-> "none",
             value |-> <<>>, objects |-> <<>>]
  /\ pc = "copy"
  /\ calls = 0

\* The call made a Copied: it joins the list, with the caller's bytes as they
\* were at the call set beside it.
Made(op, made) ==
  /\ Len(prev.objects) < MaxCopies
  /\ prev' = [prev EXCEPT !.value = made.heap,
                          !.objects = Append(@, made.object @@ [taken |-> bytes])]
  /\ last' = [op |-> op, args |-> <<>>, pre |-> Cur, err |-> "none",
              value |-> Len(prev.objects) + 1]
  /\ UNCHANGED <<bytes, offset, pc, calls>>

\* const copied = Copied.from(bytes)
CopiedFrom == Made("Copied.from", Copied_from(bytes, prev.value, 0))

\* const copied = new Uncopied(bytes).copy()
UncopiedCopy == Made("Uncopied.copy", Uncopied_copy(bytes, prev.value, Uncopied))

\* new Uncopied(bytes).get()
UncopiedGet ==
  /\ last' = [op |-> "Uncopied.get", args |-> <<>>, pre |-> Cur, err |-> "none",
              value |-> Copiable_get(Uncopied)]
  /\ UNCHANGED <<bytes, offset, prev, pc, calls>>

\* copied.get()
CopiedGet ==
  /\ \E id \in 1..Len(prev.objects) :
       last' = [op |-> "Copied.get", args |-> [this |-> id], pre |-> Cur, err |-> "none",
                value |-> Copiable_get(prev.objects[id])]
  /\ UNCHANGED <<bytes, offset, prev, pc, calls>>

\* copied.copy()
CopiedCopy ==
  /\ \E id \in 1..Len(prev.objects) :
       last' = [op |-> "Copied.copy", args |-> [this |-> id], pre |-> Cur, err |-> "none",
                value |-> Copied_copy(id)]
  /\ UNCHANGED <<bytes, offset, prev, pc, calls>>

\* bytes[i] = x, by the caller, later
StoreInSource ==
  /\ calls < MaxChanges
  /\ \E i \in 0..MaxN, x \in StoredValues :
       /\ last' = [op |-> "store", args |-> [i |-> i, x |-> x], pre |-> Cur,
                   err |-> "none", value |-> NoValue]
       /\ bytes' = StoreByte(bytes, i, x)
  /\ calls' = calls + 1
  /\ UNCHANGED <<offset, prev, pc>>

NextCopy ==
  CopiedFrom \/ UncopiedCopy \/ UncopiedGet \/ CopiedGet \/ CopiedCopy \/ StoreInSource

SpecCopy == InitCopy /\ [][NextCopy]_vars

(***************************************************************************)
(* Properties.  In each, last.pre is the cursor before the last call and   *)
(* bytes, offset are what the call left.                                   *)
(***************************************************************************)

LastOk == last.err = "none"

PreRemaining == remaining(last.pre)

GetSetOps ==
  {"getOrThrow", "setOrThrow",
   "getUint8OrThrow", "setUint8OrThrow", "getUint16OrThrow", "setUint16OrThrow",
   "getUint24OrThrow", "setUint24OrThrow", "getUint32OrThrow", "setUint32OrThrow",
   "getUint64OrThrow", "setUint64OrThrow"}

UintOps ==
  (GetSetOps \ {"getOrThrow", "setOrThrow"}) \cup
  {"readUint8OrThrow", "writeUint8OrThrow", "readUint16OrThrow", "writeUint16OrThrow",
   "readUint24OrThrow", "writeUint24OrThrow", "readUint32OrThrow", "writeUint32OrThrow",
   "readUint64OrThrow", "writeUint64OrThrow"}

UintWrites ==
  {"writeUint8OrThrow", "writeUint16OrThrow", "writeUint24OrThrow", "writeUint32OrThrow",
   "writeUint64OrThrow"}

\* Whether x is in [0, 2^(8w) - 1]: a number below 2^24 is an integer, a wider
\* one the sequence of its w digits.
InRange(w, x) ==
  CASE w = 1 -> 0 <= x /\ x <= 255
    [] w = 2 -> 0 <= x /\ x <= 65535
    [] w = 3 -> 0 <= x /\ x <= 16777215
    [] OTHER -> Len(x) = w

RECURSIVE Utf8ByteLength(_)
\* The number of bytes of the UTF-8 encoding of text.
Utf8ByteLength(text) ==
  IF text = <<>> THEN 0 ELSE Len(Utf8Bytes(Head(text))) + Utf8ByteLength(Tail(text))

\* C1: offset stays within [0, length] along every sequence of calls on a cursor
\* constructed with its offset there.
C1_OffsetInRange == 0 <= offset /\ offset <= Len(bytes)

\* C2: getOrThrow, setOrThrow, getUintW and setUintW leave offset as it was,
\* whether they return or throw.
C2_GetSetKeepOffset == last.op \in GetSetOps => offset = last.pre.offset

C2_Witness ==
  /\ last.op = "setUint64OrThrow" /\ LastOk /\ bytes # last.pre.bytes
  /\ offset = last.pre.offset

\* C3: readOrThrow(n) returns exactly when remaining >= n, then with the window
\* [offset, offset + n) and offset advanced by n; otherwise it throws a read
\* length overflow and leaves offset.
C3_Read ==
  last.op = "readOrThrow" =>
    LET n == last.args.n IN
    /\ LastOk <=> PreRemaining >= n
    /\ LastOk => /\ last.value = [byteOffset |-> last.pre.offset, length |-> n]
                 /\ offset = last.pre.offset + n
    /\ ~LastOk => /\ last.err = "CursorReadLengthOverflowError"
                  /\ offset = last.pre.offset

\* Reading n bytes from a buffer of n bytes leaves offset = n.
C3_Witness ==
  /\ last.op = "readOrThrow" /\ LastOk
  /\ last.args.n = Len(bytes) /\ last.args.n > 0 /\ offset = last.args.n

\* C4: writeOrThrow(array) returns exactly when remaining >= array.length, then
\* with array stored at [offset, offset + array.length) and offset advanced by
\* array.length; otherwise it throws a write length overflow and leaves offset
\* and every byte.
C4_Write ==
  last.op = "writeOrThrow" =>
    LET a == last.args.array IN
    /\ LastOk <=> PreRemaining >= Len(a)
    /\ LastOk => /\ SubSeq(bytes, last.pre.offset + 1, last.pre.offset + Len(a)) = a
                 /\ offset = last.pre.offset + Len(a)
    /\ ~LastOk => /\ last.err = "CursorWriteLengthOverflowError"
                  /\ offset = last.pre.offset
                  /\ bytes = last.pre.bytes

C4_Witness ==
  /\ last.op = "writeOrThrow" /\ LastOk
  /\ Len(last.args.array) = Len(bytes) /\ bytes = <<1, 2, 3>> /\ offset = 3

\* The last call, a readX, relates to getX's outcome g from the same cursor:
\* same error, same buffer, same value, and offset k further on success.
ReadAsGet(g, k) ==
  /\ last.err = g.err
  /\ bytes = g.bytes
  /\ g.err = "none" => last.value = g.value /\ offset = last.pre.offset + k
  /\ g.err # "none" => offset = g.offset

\* The last call, a writeX, relates to setX's outcome s from the same cursor:
\* same error, same buffer, and offset k further on success.
WriteAsSet(s, k) ==
  /\ last.err = s.err
  /\ bytes = s.bytes
  /\ s.err = "none" => offset = last.pre.offset + k
  /\ s.err # "none" => offset = s.offset

C6_WriteThenRead ==
  /\ pc = "written" /\ last.op = "writeOrThrow" /\ PreRemaining >= Len(last.args.array)
       => LastOk /\ offset = last.pre.offset + Len(last.args.array)
  /\ pc = "read" /\ prev.op = "writeOrThrow" /\ remaining(prev.pre) >= Len(prev.args.array)
       => /\ LastOk
          /\ WindowBytes(bytes, last.value) = prev.args.array
          /\ offset = prev.pre.offset + Len(prev.args.array)

C6_Witness ==
  /\ pc = "read" /\ prev.op = "writeOrThrow" /\ LastOk
  /\ prev.pre.offset = 2 /\ prev.pre.bytes = <<255, 255, 255, 255, 255>>
  /\ WindowBytes(bytes, last.value) = <<1, 2, 3>> /\ offset = 5

\* C7: writeUintW(v, E) at offset s with v in [0, 2^W - 1] and W/8 bytes
\* remaining, offset put back to s, then readUintW(E): the value read is v, and
\* each of the two calls advances offset by W/8.
C7_UintRoundTrip ==
  /\ pc = "written" /\ last.op \in UintWrites /\ InRange(last.args.w, last.args.x)
       /\ PreRemaining >= last.args.w
       => LastOk /\ offset = last.pre.offset + last.args.w
  /\ pc = "read" /\ prev.op \in UintWrites /\ InRange(prev.args.w, prev.args.x)
       /\ remaining(prev.pre) >= prev.args.w
       /\ (prev.args.w > 1 => ToBoolean(last.args.le) = ToBoolean(prev.args.le))
       => /\ LastOk
          /\ last.value = prev.args.x
          /\ offset = prev.pre.offset + prev.args.w

\* 0x010203 written and read back little-endian in the middle of a buffer.
C7_Witness ==
  /\ pc = "read" /\ prev.op = "writeUint24OrThrow" /\ prev.args.le = "true"
  /\ last.args.le = "true" /\ prev.pre.offset = 1 /\ Len(bytes) > 4
  /\ last.value = 66051 /\ SubSeq(bytes, 2, 4) = <<3, 2, 1>> /\ offset = 4

\* C8: 2^24 - 1 written by writeUint24OrThrow is read back by readUint24OrThrow,
\* and writeUint24OrThrow of a value outside [0, 2^24 - 1] throws, stores no
\* byte and leaves offset.
C8_Uint24Boundary ==
  /\ pc = "read" /\ prev.op = "writeUint24OrThrow" /\ prev.args.x = 16777215
       /\ remaining(prev.pre) >= 3 /\ ToBoolean(last.args.le) = ToBoolean(prev.args.le)
       => last.value = 16777215
  /\ last.op = "writeUint24OrThrow" /\ ~InRange(3, last.args.x)
       => ~LastOk /\ bytes = last.pre.bytes /\ offset = last.pre.offset

\* C9: a getUintW, readUintW, setUintW or writeUintW with fewer than W/8 bytes
\* remaining throws and leaves offset and every byte.
C9_UintOverflowFails ==
  last.op \in UintOps /\ PreRemaining < last.args.w
    => ~LastOk /\ offset = last.pre.offset /\ bytes = last.pre.bytes

\* C10: fillOrThrow(value, n) with remaining >= n sets exactly the bytes at
\* [offset, offset + n) to value and advances offset by n; with remaining < n it
\* throws a write length overflow and leaves the buffer and offset.
C10_Fill ==
  last.op = "fillOrThrow" =>
    LET n == last.args.n
        o == last.pre.offset
    IN
    /\ LastOk <=> PreRemaining >= n
    /\ LastOk => /\ offset = o + n
                 /\ Len(bytes) = Len(last.pre.bytes)
                 /\ \A i \in 1..Len(bytes) :
                      bytes[i] = IF o < i /\ i <= o + n THEN last.args.value
                                 ELSE last.pre.bytes[i]
    /\ ~LastOk => /\ last.err = "CursorWriteLengthOverflowError"
                  /\ offset = o
                  /\ bytes = last.pre.bytes

\* The "fill" test: five zeroed bytes, offset 2, fillOrThrow(1, 2).
C10_Witness ==
  /\ last.op = "fillOrThrow" /\ last.args = [value |-> 1, n |-> 2]
  /\ last.pre = [bytes |-> <<0, 0, 0, 0, 0>>, offset |-> 2]
  /\ bytes = <<0, 0, 1, 1, 0>> /\ offset = 4

(***************************************************************************)
(* split                                                                   *)
(***************************************************************************)

RECURSIVE SumLengths(_)
SumLengths(w) == IF w = <<>> THEN 0 ELSE w[1].length + SumLengths(Tail(w))

RECURSIVE ConcatWindows(_, _)
ConcatWindows(b, w) ==
  IF w = <<>> THEN <<>> ELSE WindowBytes(b, w[1]) \o ConcatWindows(b, Tail(w))

\* C11: a generator of splitOrThrow(n) or trySplit(n), n >= 1, made on a
\* cursor with r bytes remaining and pulled until done, has yielded
\* floor(r/n) windows of length n and then, when r mod n > 0, one window of
\* length r mod n; the windows follow each other from the starting offset,
\* together they hold the bytes [offset, length) and offset ends at length.
C11_SplitChunks ==
  (pc = "completed" /\ prev.args.n >= 1) =>
    LET n == prev.args.n
        s == prev.pre.offset
        r == remaining(prev.pre)
        w == prev.value
    IN /\ last.err = "none"
       /\ Len(w) = (r \div n) + (IF r % n > 0 THEN 1 ELSE 0)
       /\ \A i \in 1..Len(w) :
            /\ w[i].byteOffset = s + ((i - 1) * n)
            /\ w[i].length = IF i <= r \div n THEN n ELSE r % n
       /\ ConcatWindows(bytes, w) = SubSeq(prev.pre.bytes, s + 1, length(prev.pre))
       /\ bytes = prev.pre.bytes
       /\ offset = length(Cur)

\* 8 bytes split by 3: windows of 3, 3 and 2 bytes.
C11_Witness ==
  /\ pc = "completed"
  /\ prev.op = "splitOrThrow"
  /\ prev.args.n = 3
  /\ prev.pre.offset = 0
  /\ Len(prev.value) = 3
  /\ prev.value[3].length = 2
  /\ offset = 8

\* C12: a generator of splitOrThrow(n) or trySplit(n), n >= 0, that the
\* caller keeps pulling reaches done.
C12_SplitTerminates == (pc = "suspendedStart") ~> (pc = "completed")

\* C13: making the generator leaves offset where it was; a pull that yields
\* a window moves offset on by that window's length and a pull that reports
\* done does not move it; after any number of pulls offset is the starting
\* offset plus the lengths of the windows yielded so far.
C13_SplitLazy ==
  /\ last.op \in {"splitOrThrow", "trySplit"} => (offset = last.pre.offset /\ prev.value = <<>>)
  /\ last.op = "next" =>
       /\ bytes = last.pre.bytes
       /\ offset = last.pre.offset + (IF last.value.done THEN 0 ELSE last.value.value.length)
  /\ (pc \in GeneratorStates /\ calls < MaxPulls) =>
       /\ Len(prev.value) <= calls
       /\ offset = prev.pre.offset + SumLengths(prev.value)

\* A generator left after two pulls of three bytes each, with bytes still to yield.
C13_Witness ==
  /\ pc = "suspendedYield"
  /\ prev.op = "trySplit"
  /\ prev.args.n = 3
  /\ calls = 2
  /\ offset = prev.pre.offset + 6
  /\ remaining(Cur) > 0

(***************************************************************************)
(* NUL-terminated fields                                                   *)
(***************************************************************************)

\* The indexes of the zero bytes of c's buffer at or after its offset.
ZerosAfter(c) == {i \in c.offset..(length(c) - 1) : c.bytes[i + 1] = 0}

\* The index of the first zero byte at or after the offset.
FirstZero(c) == CHOOSE i \in ZerosAfter(c) : \A j \in ZerosAfter(c) : i <= j

\* C14: getNullOrThrow returns the index i of the first zero byte at or
\* after offset (offset <= i < length, no zero byte in [offset, i)), or, when
\* [offset, length) holds no zero byte, fails with a read null-overflow
\* error; either way offset and the buffer are as before the call.
C14_GetNull ==
  last.op = "getNullOrThrow" =>
    /\ offset = last.pre.offset
    /\ bytes = last.pre.bytes
    /\ IF ZerosAfter(last.pre) = {}
       THEN last.err = "CursorReadNullOverflowError"
       ELSE LastOk /\ last.value = FirstZero(last.pre)

\* C15: with a zero byte at or after offset, getNulledOrThrow and
\* readNulledOrThrow return the window from offset up to, and not including,
\* the first zero byte at or after offset.
C15_NulledWindow ==
  (/\ last.op \in {"getNulledOrThrow", "readNulledOrThrow"}
   /\ last.pre.offset < length(last.pre)
   /\ ZerosAfter(last.pre) # {}) =>
    /\ LastOk
    /\ last.value = [byteOffset |-> last.pre.offset,
                     length |-> FirstZero(last.pre) - last.pre.offset]

\* C16: writeNulledOrThrow(p) at offset s with room for p and its terminator,
\* offset put back to s, then readNulledOrThrow: the window read holds p and
\* offset is s + p.length + 1, past the terminator.
C16_NulledRoundTrip ==
  (/\ pc = "read"
   /\ prev.op = "writeNulledOrThrow"
   /\ remaining(prev.pre) >= Len(prev.args.array) + 1) =>
    /\ LastOk
    /\ WindowBytes(bytes, last.value) = prev.args.array
    /\ offset = prev.pre.offset + Len(prev.args.array) + 1

\* C17: when writeNulledOrThrow(array) or setNulledOrThrow(array) returns
\* from offset s, the buffer holds array at [s, s + array.length) and a zero
\* byte at s + array.length, an index inside the buffer; so with
\* remaining == array.length the call does not return normally.
C17_NulledWritten ==
  (last.op \in {"writeNulledOrThrow", "setNulledOrThrow"} /\ LastOk) =>
    LET s == last.pre.offset
        n == Len(last.args.array)
    IN /\ s + n < Len(bytes)
       /\ SubSeq(bytes, s + 1, s + n) = last.args.array
       /\ bytes[s + n + 1] = 0

\* C18: setNulledOrThrow(array) and trySetNulled(array) end with offset
\* where it was before the call, whether the write inside succeeded or
\* failed.
C18_SetNulledKeepsOffset ==
  last.op \in {"setNulledOrThrow", "trySetNulled"} => offset = last.pre.offset

\* A failed and a successful call of each form, from an offset above 0.
C18_Witness ==
  /\ last.op \in {"setNulledOrThrow", "trySetNulled"}
  /\ last.pre.offset = 2
  /\ Len(last.args.array) = 3
  /\ \/ last.err = "CursorWriteLengthOverflowError" /\ bytes = last.pre.bytes
     \/ LastOk /\ bytes # last.pre.bytes

(***************************************************************************)
(* UTF-8 text                                                              *)
(***************************************************************************)

RECURSIVE Utf8Encode(_)
\* The UTF-8 encoding of a whole text.
Utf8Encode(text) == IF text = <<>> THEN <<>> ELSE Utf8Bytes(Head(text)) \o Utf8Encode(Tail(text))

\* C19: setUtf8OrThrow(text) and writeUtf8OrThrow(text) return normally
\* exactly when the k bytes of the UTF-8 encoding of text fit in the
\* remaining bytes (the bytes of the buffer from offset on, none when offset
\* is past the end); then [offset, offset + k) holds the encoding, and
\* writeUtf8OrThrow has moved offset on by k while setUtf8OrThrow has left it;
\* otherwise they fail with a write-unknown error and offset is as before.
C19_Utf8Write ==
  last.op \in {"setUtf8OrThrow", "writeUtf8OrThrow"} =>
    LET c == last.pre
        k == Len(Utf8Encode(last.args.text))
    IN IF k <= Max(remaining(c), 0)
       THEN /\ LastOk
            /\ SubSeq(bytes, c.offset + 1, c.offset + k) = Utf8Encode(last.args.text)
            /\ offset = c.offset + (IF last.op = "writeUtf8OrThrow" THEN k ELSE 0)
       ELSE /\ last.err = "CursorWriteUnknownError"
            /\ offset = c.offset

\* U+1F600, two code units, written as four bytes.
C19_Witness ==
  /\ last.op = "writeUtf8OrThrow" /\ LastOk
  /\ last.args.text = <<128512>>
  /\ StringLength(last.args.text) = 2
  /\ offset = last.pre.offset + 4
  /\ SubSeq(bytes, last.pre.offset + 1, offset) = <<240, 159, 152, 128>>

(***************************************************************************)
(* The two forms of each operation (cursor.ts).  Its throwing forms are    *)
(* the ones above, but for the 24-bit ones, which go through a Buffer.     *)
(***************************************************************************)

\* The last call, a Result-returning form, relates to the outcome o of the
\* throwing form from the same cursor and arguments: Err exactly when o is a
\* throw, of the same kind of error, the same offset and buffer, and the same
\* value on success.
SameAsThrowing(o) ==
  /\ (last.err = "none") <=> (o.err = "none")
  /\ last.err = o.err
  /\ offset = o.offset
  /\ bytes = o.bytes
  /\ o.err = "none" => last.value = o.value

\* C20: each Result-returning form returns Err exactly when the throwing
\* form, run from the same buffer, offset and arguments, throws, with the
\* same kind of error, and leaves the same offset and buffer and, on
\* success, gives the same value.
C20_TryAsOrThrow ==
  LET c == last.pre
      a == last.args
  IN
  /\ last.op = "tryGet" => SameAsThrowing(getOrThrow(c, a.n))
  /\ last.op = "tryRead" => SameAsThrowing(readOrThrow(c, a.n))
  /\ last.op = "trySet" => SameAsThrowing(setOrThrow(c, a.array))
  /\ last.op = "tryWrite" => SameAsThrowing(writeOrThrow(c, a.array))
  /\ last.op = "tryGetUint8" => SameAsThrowing(getUint8OrThrow(c))
  /\ last.op = "tryReadUint8" => SameAsThrowing(readUint8OrThrow(c))
  /\ last.op = "trySetUint8" => SameAsThrowing(setUint8OrThrow(c, a.x))
  /\ last.op = "tryWriteUint8" => SameAsThrowing(writeUint8OrThrow(c, a.x))
  /\ last.op = "tryGetUint16" => SameAsThrowing(getUint16OrThrow(c, a.le))
  /\ last.op = "tryReadUint16" => SameAsThrowing(readUint16OrThrow(c, a.le))
  /\ last.op = "trySetUint16" => SameAsThrowing(setUint16OrThrow(c, a.x, a.le))
  /\ last.op = "tryWriteUint16" => SameAsThrowing(writeUint16OrThrow(c, a.x, a.le))
  /\ last.op = "tryGetUint24" => SameAsThrowing(getUint24OrThrowBuffer(c, a.le))
  /\ last.op = "tryReadUint24" => SameAsThrowing(readUint24OrThrowBuffer(c, a.le))
  /\ last.op = "trySetUint24" => SameAsThrowing(setUint24OrThrowBuffer(c, a.x, a.le))
  /\ last.op = "tryWriteUint24" => SameAsThrowing(writeUint24OrThrowBuffer(c, a.x, a.le))
  /\ last.op = "tryGetUint32" => SameAsThrowing(getUint32OrThrow(c, a.le))
  /\ last.op = "tryReadUint32" => SameAsThrowing(readUint32OrThrow(c, a.le))
  /\ last.op = "trySetUint32" => SameAsThrowing(setUint32OrThrow(c, a.x, a.le))
  /\ last.op = "tryWriteUint32" => SameAsThrowing(writeUint32OrThrow(c, a.x, a.le))
  /\ last.op = "tryGetUint64" => SameAsThrowing(getUint64OrThrow(c, a.le))
  /\ last.op = "tryReadUint64" => SameAsThrowing(readUint64OrThrow(c, a.le))
  /\ last.op = "trySetUint64" => SameAsThrowing(setUint64OrThrow(c, a.x, a.le))
  /\ last.op = "tryWriteUint64" => SameAsThrowing(writeUint64OrThrow(c, a.x, a.le))
  /\ last.op = "tryGetUtf8" => SameAsThrowing(getUtf8OrThrow(c, a.n))
  /\ last.op = "tryReadUtf8" => SameAsThrowing(readUtf8OrThrow(c, a.n))
  /\ last.op = "trySetUtf8" => SameAsThrowing(setUtf8OrThrow(c, a.text))
  /\ last.op = "tryWriteUtf8" => SameAsThrowing(writeUtf8OrThrow(c, a.text))
  /\ last.op = "tryGetNull" => SameAsThrowing(getNullOrThrow(c))
  /\ last.op = "tryGetNulled" => SameAsThrowing(getNulledOrThrow(c))
  /\ last.op = "tryReadNulled" => SameAsThrowing(readNulledOrThrow(c))
  /\ last.op = "trySetNulled" => SameAsThrowing(setNulledOrThrow(c, a.array))
  /\ last.op = "tryWriteNulled" => SameAsThrowing(writeNulledOrThrow(c, a.array))
  /\ (last.op = "next" /\ prev.op = "trySplit") =>
       LET g == splitOrThrow(c, prev.args.n, a.at)
       IN /\ SameAsThrowing([g.out EXCEPT !.value = [done |-> g.done, value |-> g.out.value]])
          /\ pc = g.at

(***************************************************************************)
(* Errors                                                                  *)
(***************************************************************************)

\* The length the last call asked for, where it asked for one.
RequestedLength ==
  IF last.op \in {"getOrThrow", "readOrThrow", "getUtf8OrThrow", "readUtf8OrThrow", "fillOrThrow"}
  THEN <<last.args.n>>
  ELSE IF last.op \in {"setOrThrow", "writeOrThrow", "setNulledOrThrow", "writeNulledOrThrow"}
  THEN <<Len(last.args.array)>>
  ELSE <<>>

\* C21: the error of a failed call carries the cursor's offset and length as
\* they were when the call was made and, when it is a length overflow of a
\* call that asked for a length, that length; whatever the error is.
C21_ErrorContext ==
  last.err # "none" =>
    /\ last.value # NoValue
    /\ last.value.cursorOffset = last.pre.offset
    /\ last.value.cursorLength = length(last.pre)
    /\ (/\ last.err \in {"CursorReadLengthOverflowError", "CursorWriteLengthOverflowError"}
        /\ RequestedLength # <<>>) => last.value.bytesLength = RequestedLength[1]

(***************************************************************************)
(* Windows                                                                 *)
(***************************************************************************)

C23_LengthFixed == last.op # "new" => Len(bytes) = Len(last.pre.bytes)

\* C26: a cursor just made on a view is as long as the view's byte length,
\* sees the buffer's bytes from the view's byteOffset on, unchanged, and
\* stands at the offset given, or at 0 when none was given.
C26_Construction ==
  last.op = "constructor" =>
    LET view == last.args.view
    IN  /\ Len(bytes) = view.length * view.BYTES_PER_ELEMENT
        /\ \A i \in 1..Len(bytes) : bytes[i] = view.buffer[view.byteOffset + i]
        /\ offset = (IF last.args.offset = Undefined THEN 0 ELSE last.args.offset)

\* A cursor made on a Uint16Array of two elements from byte 4 of its buffer,
\* with no offset given.
C26_Witness ==
  /\ last.op = "constructor"
  /\ last.args.view.BYTES_PER_ELEMENT = 2
  /\ last.args.view.length = 2
  /\ last.args.view.byteOffset = 4
  /\ last.args.offset = Undefined
  /\ bytes = <<226, 130, 172, 255>>
  /\ offset = 0

\* C27: a cursor just made stands inside its buffer: 0 <= offset <= length.
C27_ConstructedInside ==
  last.op = "constructor" => 0 <= offset /\ offset <= Len(bytes)

(***************************************************************************)
(* Byte order and value range of the integer accessors                     *)
(***************************************************************************)

\* The w base-256 digits of an in-range value, most significant first.
UintDigits(w, x) ==
  IF w = 2 THEN <<x \div 256, x % 256>>
  ELSE IF w = 3 THEN <<x \div 65536, (x \div 256) % 256, x % 256>>
  ELSE x

\* C24: writeUintW of an in-range value, W in {16, 24, 32, 64}, stores its
\* bytes most significant first when the flag is left out or false and least
\* significant first when it is true; read back with the opposite byte order
\* the value comes out with its bytes reversed.
C24_ByteOrder ==
  /\ pc = "written" /\ last.op \in UintWrites /\ last.args.w > 1
       /\ InRange(last.args.w, last.args.x) /\ PreRemaining >= last.args.w
       => SubSeq(bytes, last.pre.offset + 1, last.pre.offset + last.args.w)
            = (IF last.args.le = "true"
               THEN Reverse(UintDigits(last.args.w, last.args.x))
               ELSE UintDigits(last.args.w, last.args.x))
  /\ pc = "read" /\ prev.op \in UintWrites /\ prev.args.w > 1
       /\ InRange(prev.args.w, prev.args.x) /\ remaining(prev.pre) >= prev.args.w
       /\ (last.args.le = "true") # (prev.args.le = "true")
       => /\ LastOk
          /\ UintDigits(last.args.w, last.value)
               = Reverse(UintDigits(prev.args.w, prev.args.x))

\* 0x01020304 written little-endian and read back with the flag left out.
C24_Witness ==
  /\ pc = "read" /\ prev.op = "writeUint32OrThrow" /\ prev.args.le = "true"
  /\ prev.args.x = <<1, 2, 3, 4>> /\ last.args.le = "unset" /\ prev.pre.offset = 1
  /\ LastOk /\ last.value = <<4, 3, 2, 1>>
  /\ WindowBytes(bytes, [byteOffset |-> 1, length |-> 4]) = <<4, 3, 2, 1>>

\* C25: setUintW and writeUintW, W in {8, 16, 32}, of a value outside
\* [0, 2^W - 1] fail, store no byte and leave offset.
C25_RangeRejected ==
  /\ last.op \in {"setUint8OrThrow", "writeUint8OrThrow", "setUint16OrThrow",
                  "writeUint16OrThrow", "setUint32OrThrow", "writeUint32OrThrow"}
  /\ ~InRange(last.args.w, last.args.x)
  => ~LastOk /\ bytes = last.pre.bytes /\ offset = last.pre.offset

(***************************************************************************)
(* Derived views and the movement of offset                                *)
(***************************************************************************)

\* C28: in every state remaining is length - offset, before holds offset
\* bytes, after holds remaining bytes, and before followed by after is the
\* whole buffer.
C28_DerivedViews ==
  LET c == Cur
  IN  /\ remaining(c) = length(c) - c.offset
      /\ before(c).length = c.offset
      /\ after(c).length = remaining(c)
      /\ WindowBytes(bytes, before(c)) \o WindowBytes(bytes, after(c)) = bytes

\* C29: unless offset is assigned directly, no call and no pull of a split
\* ends with offset smaller than it was before, whatever integer its length
\* argument is.
C29_OffsetMonotone == last.op # "seek" => offset >= last.pre.offset

\* C30: no pull of splitOrThrow(n) throws and no pull of trySplit(n) ends in
\* an Err, wherever the cursor stands and whatever n is; a split that ends,
\* ends with done and no value (Ok.void() for trySplit).
C30_SplitNeverFails ==
  last.op = "next" =>
    /\ LastOk
    /\ (pc = "completed" => last.value = [done |-> TRUE, value |-> NoValue])

\* A trySplit begun one past the end of the buffer: its internal read is of
\* remaining = -1 bytes, one empty window is yielded, then it ends.
C30_Witness ==
  /\ last.op = "next" /\ pc = "completed" /\ prev.op = "trySplit"
  /\ prev.pre.offset = Len(bytes) + 1 /\ prev.args.n = 2
  /\ Len(prev.value) = 1 /\ prev.value[1].length = 0
  /\ LastOk /\ offset = Len(bytes)

(***************************************************************************)
(* Generators once consumed                                                *)
(***************************************************************************)

\* C31: a pull of a split generator that has reported done reports done
\* again, yields no window and leaves offset and the buffer, also when offset
\* was put back by assignment since.
C31_SplitNotRestartable ==
  last.op = "next" /\ last.args.at = "completed" =>
    /\ LastOk
    /\ last.value = [done |-> TRUE, value |-> NoValue]
    /\ offset = last.pre.offset
    /\ bytes = last.pre.bytes
    /\ pc = "completed"

\* A splitOrThrow(2) that yielded windows, returned, and is pulled again after
\* offset was put back to the head of a buffer of 3 bytes.
C31_Witness ==
  /\ last.op = "next" /\ last.args.at = "completed" /\ prev.op = "splitOrThrow"
  /\ prev.args.n = 2 /\ Len(prev.value) = 2 /\ Len(bytes) = 3
  /\ last.pre.offset = 0 /\ offset = 0 /\ last.value.done

(***************************************************************************)
(* Failures of the Result-returning forms                                  *)
(***************************************************************************)

TryUintReads ==
  {"tryGetUint16", "tryReadUint16", "tryGetUint24", "tryReadUint24",
   "tryGetUint32", "tryReadUint32", "tryGetUint64", "tryReadUint64"}

TryUintWrites ==
  {"trySetUint16", "tryWriteUint16", "trySetUint24", "tryWriteUint24",
   "trySetUint32", "tryWriteUint32", "trySetUint64", "tryWriteUint64"}

\* C32: tryGetUintW, tryReadUintW, trySetUintW and tryWriteUintW, W in
\* {16, 24, 32, 64}, with fewer than W/8 bytes remaining return an Err of the
\* unknown read or write kind, not a length overflow, and leave offset.
C32_UintUnknownError ==
  /\ last.op \in TryUintReads /\ PreRemaining < last.args.w
       => last.err = "CursorReadUnknownError" /\ offset = last.pre.offset
  /\ last.op \in TryUintWrites /\ PreRemaining < last.args.w
       => last.err = "CursorWriteUnknownError" /\ offset = last.pre.offset

\* tryReadUint16 with one byte left.
C32_Witness ==
  /\ last.op = "tryReadUint16" /\ PreRemaining = 1 /\ last.pre.offset = 2
  /\ last.err = "CursorReadUnknownError" /\ offset = 2

\* C33: a tryWriteNulled that fails leaves offset where it was; so when the
\* array fits and its terminator does not (remaining = array.length), with the
\* Uint8 write bounds-checked.
C33_WriteNulledFailure ==
  last.op = "tryWriteNulled" /\ ~LastOk => offset = last.pre.offset

\* C34: a tryReadNulled that succeeds returns what tryGetNulled returns and
\* advances offset once, by the length of the window it returns.
C34_ReadNulledAdvance ==
  last.op = "tryReadNulled" /\ LastOk =>
    /\ last.value = tryGetNulled_R(last.pre).value
    /\ offset = last.pre.offset + last.value.length

(***************************************************************************)
(* What a write may touch                                                  *)
(***************************************************************************)

StoringOps ==
  {"setOrThrow", "writeOrThrow", "setUint8OrThrow", "writeUint8OrThrow",
   "setUint16OrThrow", "writeUint16OrThrow", "setUint24OrThrow", "writeUint24OrThrow",
   "setUint32OrThrow", "writeUint32OrThrow", "setUint64OrThrow", "writeUint64OrThrow",
   "setUtf8OrThrow", "writeUtf8OrThrow", "setNulledOrThrow", "writeNulledOrThrow",
   "fillOrThrow"}

\* The number of bytes the last call is to produce.
Produced ==
  CASE last.op \in {"setOrThrow", "writeOrThrow"} -> Len(last.args.array)
    [] last.op \in {"setNulledOrThrow", "writeNulledOrThrow"} -> Len(last.args.array) + 1
    [] last.op \in {"setUtf8OrThrow", "writeUtf8OrThrow"} -> Utf8ByteLength(last.args.text)
    [] last.op = "fillOrThrow" -> last.args.n
    [] OTHER -> last.args.w

\* C35: a set, write or fill call, whether it succeeds or fails, changes no
\* byte outside [offset, offset + k), offset being the one before the call
\* and k the number of bytes the call is to produce, and the buffer keeps its
\* length.
C35_WriteFootprint ==
  last.op \in StoringOps =>
    /\ Len(bytes) = Len(last.pre.bytes)
    /\ \A i \in 1..Len(bytes) :
         bytes[i] # last.pre.bytes[i] =>
           last.pre.offset < i /\ i <= last.pre.offset + Produced

\* C36: a setUtf8OrThrow or writeUtf8OrThrow that fails, the text not fitting
\* in the bytes remaining, leaves every byte of the buffer as it was.
C36_Utf8FailureNoOp ==
  last.op \in {"setUtf8OrThrow", "writeUtf8OrThrow"} /\ ~LastOk => bytes = last.pre.bytes

(***************************************************************************)
(* Two generators on one cursor                                            *)
(***************************************************************************)

\* C37: two split generators on one cursor, with chunk lengths >= 1, pulled
\* in any order: each window yielded starts at the offset current at its
\* pull, no two windows overlap, and once both have reported done the windows
\* of both together are exactly [s, length), s the offset before the first
\* pull, and offset is length.
C37_TwoSplits ==
  pc = "pulling" =>
    LET w == prev.value
        s == prev.pre.offset
    IN /\ last.op = "next" => LastOk
       /\ last.op = "next" /\ LastOk /\ ~last.value.done
            => last.value.value.byteOffset = last.pre.offset
       /\ \A i \in 1..Len(w) : \A j \in 1..Len(w) :
            i < j => w[i].byteOffset + w[i].length <= w[j].byteOffset
       /\ prev.at = <<"completed", "completed">> =>
            /\ Len(w) > 0 => w[1].byteOffset = s
            /\ SumLengths(w) = length(prev.pre) - s
            /\ ConcatWindows(bytes, w) = SubSeq(prev.pre.bytes, s + 1, length(prev.pre))
            /\ offset = length(Cur)

\* 8 bytes split by 3 and by 2 in turns: [0, 3) by the first, [3, 5) by the
\* second, [5, 8) by the first.
C37_Witness ==
  /\ pc = "pulling" /\ prev.at = <<"completed", "completed">>
  /\ prev.args.n = <<3, 2>> /\ prev.args.op = <<"splitOrThrow", "trySplit">>
  /\ prev.yielded = <<2, 1>> /\ prev.pre.offset = 0
  /\ prev.value[2] = [byteOffset |-> 3, length |-> 2]
  /\ Len(bytes) = 8 /\ offset = 8

(***************************************************************************)
(* Copies                                                                  *)
(***************************************************************************)

\* C38: the bytes a Copied holds, made by Copied.from(bytes) or by
\* Uncopied.copy(), are the source's bytes as they were at the call, whatever
\* is stored in the source later; Uncopied.get() returns the very bytes the
\* Uncopied was made on; Copied.copy() returns the Copied it was called on.
C38_Copies ==
  pc = "copy" =>
    /\ \A id \in 1..Len(prev.objects) :
         Contents(bytes, prev.value, prev.objects[id].bytes) = prev.objects[id].taken
    /\ last.op \in {"Copied.from", "Uncopied.copy"} =>
         /\ last.value = Len(prev.objects)
         /\ prev.objects[last.value].taken = last.pre.bytes
    /\ last.op = "Uncopied.get" => last.value = 0 /\ Contents(bytes, prev.value, last.value) = bytes
    /\ last.op = "Copied.copy" => last.value = last.args.this

\* A copy made by Uncopied.copy() whose source was stored into afterwards,
\* asked for its copy.
C38_Witness ==
  /\ pc = "copy" /\ last.op = "Copied.copy" /\ last.value = 1
  /\ Len(prev.objects) >= 1 /\ prev.objects[1].taken = <<65, 195>> /\ bytes = <<7, 195>>
  /\ Contents(bytes, prev.value, prev.objects[1].bytes) = <<65, 195>>

====
